---- MODULE Spec2Model ----
(***************************************************************************)
(* A model of the "No Thanks!" spreadsheet game (eranhirsch/nothanks_gs).  *)
(*                                                                         *)
(* The game part models revision v1.0 of the script (src/code.gs.js lines  *)
(* 2123-3163): the document property "deck", the cells of the Table sheet  *)
(* (revealed card, token box, marker column, names, player tokens, hands)  *)
(* and the three hotspot images.  Every user action is one TLA+ action     *)
(* that runs the handler's statements in the order of the code; a throw    *)
(* stops the handler and keeps the writes already made.                    *)
(*                                                                         *)
(* The card range, the number of cards removed at setup and the number of  *)
(* names typed in are scaled down (see the bounds below); the token table  *)
(* is the program's.                                                       *)
(*                                                                         *)
(* The specifications:                                                     *)
(*   Spec          one table, made once and played by sequential actions;  *)
(*   SpecTables    tables replaced by further "New Table" invocations;     *)
(*   SpecGame      Spec with the successful reveals and takes counted;     *)
(*   SpecRevisions one table played with the handlers of v1.0 or with      *)
(*                 those of src/unnamed/part_000;                          *)
(*   DealSpec      dealTokens alone, in each revision of it;               *)
(*   LockSpec      concurrent invocations of noThanks through singleEntry, *)
(*                 with the LockService user lock of v1.0 (3088-3110) or   *)
(*                 the metadata-timestamp lock of the earlier revisions    *)
(*                 (1225-1252 and 463-490), one service call per step;     *)
(*   SpecScore     SpecGame with revealFinalScore at the end of the game;  *)
(*   SpecLastCard  the end of a game, with further New Table invocations;  *)
(*   DeckSpec      newDeck and drawCard alone, in each revision of them;   *)
(*   RunSpec       groupConsecutiveRuns alone, one step per iteration;     *)
(*   SpecNewGame   a game of the first revision (1-527) from its newGame;  *)
(*   NewTableLockSpec  New Table and clicks of src/unnamed/part_000        *)
(*                 contending for the user lock;                           *)
(*   RevealSpec    revealTopCard alone, in each revision of it;            *)
(*   OpenSpec      the metadata lock of LockSpec with onOpen of the first  *)
(*                 revision (34-42) run while invocations are under way;   *)
(*   SpecNames     a table of src/unnamed/part_000 made from any names     *)
(*                 typed in, blank ones too;                               *)
(*   SpecAuto      Spec with OPTIONS.AUTO_REVEAL_NEXT_CARD set to true;    *)
(*   ShuffleSpec   shuffle alone, in each revision of it.                  *)
(***************************************************************************)
EXTENDS Integers, Sequences, FiniteSets, TLC

(***************************************************************************)
(* Bounds of the model.                                                    *)
(***************************************************************************)
\* Number of card values in the game (the program's range 3..35 has 33).
CardRange == 3
\* Number of cards removed blindly at setup (the program removes 9).
SetupRemoved == 1
\* Largest number of names typed into the new-table prompts (program: 7).
MaxNames == 3
\* Largest number of blank names among the names typed in.
MaxBlankNames == 1
\* New-table attempts that may be rejected while one table is live.
MaxRejected == 1
\* Longest array handed to shuffle on its own (ShuffleSpec).
MaxShuffle == 4
\* Game actions followed on one table when tables are replaced (SpecTables).
MaxMoves == 3
\* Concurrent invocations of a handler (LockSpec).
NumInvocations == 2
\* Users the invocations come from (LockSpec).
NumUsers == 2
\* The lockout period MUTEX_LOCKOUT_PERIOD_MS, in clock ticks (LockSpec).
LockoutTicks == 1
\* Last clock tick followed (LockSpec).
MaxTime == 2
\* Largest player count dealTokens is called with (DealSpec).
MaxDealCount == 8
\* Number of card values of the deck built in DeckSpec (33 in the code); the
\* range MIN_CARD..MIN_CARD + DeckRange - 1 holds a multiple of ten.
DeckRange == 8
\* Cards removed from that deck (9 in the code).
DeckRemoved == 3
\* Number of card values the inputs of groupConsecutiveRuns are drawn from
\* (RunSpec).
RunRange == 5

(***************************************************************************)
(* Program constants.                                                      *)
(***************************************************************************)
MAX_PLAYER_COUNT == 7
MIN_CARD == 3
MAX_CARD == MIN_CARD + CardRange - 1
SETUP_CARDS_REMOVED == SetupRemoved
MIN_PLAYERS == 3
MUTEX_LOCKOUT_PERIOD_MS == LockoutTicks

\* OPTIONS of v1.0, at their shipped defaults.
REMOVE_TENS == FALSE
PICK_START_PLAYER == FALSE

ACTIVE_PLAYER_MARKER == "ACTIVE"
MSG_REVEAL == "MSG_REVEAL"
MSG_TURN == "MSG_TURN"
MSG_END_GAME == "MSG_END_GAME"

\* JavaScript's null, and a blank card cell read back as null.
Null == -1
\* JavaScript's undefined: a variable never assigned, a missing property, an
\* array element past the end.
Undefined == -3

Locations == {"DECK", "CARD", "TOKENS"}

(***************************************************************************)
(* Generic helpers.                                                        *)
(***************************************************************************)
\* Array.prototype.splice(i, 1) on a 1-based sequence.
RemoveAt(s, i) == [j \in 1..(Len(s) - 1) |-> IF j < i THEN s[j] ELSE s[j + 1]]

\* xrange(a, b) spread into an array: a, a+1, ..., b-1.
xrange(a, b) == [i \in 1..(b - a) |-> a + i - 1]

\* JavaScript number coercion of a value that may be null (null + 1 = 1).
Num(x) == IF x = Null THEN 0 ELSE x

\* array.slice().sort(intComparator): ascending insertion sort.
RECURSIVE InsertSorted(_, _)
InsertSorted(s, x) ==
  IF s = <<>> THEN <<x>>
  ELSE IF x < Head(s) THEN <<x>> \o s
  ELSE <<Head(s)>> \o InsertSorted(Tail(s), x)

RECURSIVE sortInt(_)
sortInt(s) == IF s = <<>> THEN <<>> ELSE InsertSorted(sortInt(Tail(s)), Head(s))

(***************************************************************************)
(* The persisted state: the document property "deck" and the cells and     *)
(* images of the Table sheet.                                              *)
(***************************************************************************)
VARIABLES
  tableExists,  \* a sheet named "Table" exists
  deck,         \* document property "deck" (<<>>: the property is absent)
  currentCard,  \* value of the revealed-card cell (Null: blank)
  tokensCell,   \* content of the TOKENS box: a message or a string of tokens
  markerCol,    \* the MAX_PLAYER_COUNT cells left of the player names
  playerNames,  \* the player-name cells, in seating order
  playerTokens, \* the player-token cells, one per dealt player
  hands,        \* per player, the card cells of the row
  hotspots,     \* script assigned to each hotspot image ("" : none)
  scores,       \* the final-score cells, one per scored row (<<>>: none)
  rejected,     \* rejected new-table attempts since the table was created
  moves,        \* game actions on this table (counted in SpecTables only)
  mech,         \* the singleEntry deployed: "metadata" or "userlock"
  inv,          \* per concurrent invocation: its position and its locals
  lockMeta,     \* value of the sheet metadata "lock" (NoMeta: no such key)
  userLock,     \* per user, the invocation holding the LockService user lock
  now,          \* the clock, in ticks
  startWorld,   \* the persisted state the concurrent invocations started from
  deal,         \* a call of dealTokens followed on its own (DealSpec)
  revision,     \* the revision whose code runs (SpecRevisions, DealSpec)
  count,        \* successful reveals and takes on this table (SpecGame)
  build,        \* a call of newDeck followed draw by draw (DeckSpec)
  grouped,      \* a call of groupConsecutiveRuns on its own (RunSpec)
  newSheet,     \* the invocation whose "Creating new table..." sheet exists
  last          \* the last invocation: its handler and the error it raised

gameVars == <<tableExists, deck, currentCard, tokensCell, markerCol,
              playerNames, playerTokens, hands, hotspots, scores>>
vars == <<tableExists, deck, currentCard, tokensCell, markerCol,
          playerNames, playerTokens, hands, hotspots, scores, rejected, moves, last,
          mech, inv, lockMeta, userLock, now, startWorld, deal,
          revision, count, newSheet, grouped, build>>
otherVars == <<mech, inv, lockMeta, userLock, now, startWorld, deal,
               revision, newSheet, grouped, build>>
lockVars == <<otherVars, count>>

\* OPTIONS.AUTO_REVEAL_NEXT_CARD: false as shipped.  The revision named
\* AutoRevealBuild is v1.0 with the option edited to true.
AutoRevealBuild == "v1.0 auto-reveal"
AUTO_REVEAL_NEXT_CARD == revision = AutoRevealBuild

\* The persisted state as one value, threaded through the handlers' code.
World == [deck |-> deck, card |-> currentCard, cell |-> tokensCell,
          marker |-> markerCol, names |-> playerNames, ptok |-> playerTokens,
          hand |-> hands, hot |-> hotspots, score |-> scores, err |-> ""]

\* A sheet just inserted by newTable: every cell blank, no image.
BlankCell == [text |-> "", n |-> 0]
FreshSheet(d) ==
  [deck |-> d, card |-> Null, cell |-> BlankCell,
   marker |-> [i \in 1..MAX_PLAYER_COUNT |-> ""], names |-> <<>>,
   ptok |-> <<>>, hand |-> <<>>, hot |-> [l \in Locations |-> ""],
   score |-> <<>>, err |-> ""]

\* throw new Error(e): the writes made so far stay.
Throw(w, e) == [w EXCEPT !.err = e]

(***************************************************************************)
(* STATE MANAGEMENT (v1.0)                                                 *)
(***************************************************************************)
getDeck(w) == w.deck

\* An empty deck deletes the property, so a stored deck is never empty.
setDeck(w, d) == [w EXCEPT !.deck = d]

getCurrentCard(w) == w.card

setCurrentCard(w, cardVal) == [w EXCEPT !.card = cardVal]

\* TOKEN_REPR.repeat(tokens) written to the box; repeat(0) is the empty string.
TokenString(tokens) ==
  IF tokens = 0 THEN BlankCell ELSE [text |-> "TOKENS", n |-> tokens]

setInstructionsMessage(w, message) ==
  [w EXCEPT !.cell = [text |-> message, n |-> 0]]

getTokensInPool(w) ==
  IF w.cell.text = MSG_TURN THEN 0
  ELSE IF w.cell.text = "TOKENS" THEN w.cell.n
  ELSE Null

setTokensInPool(w, tokens) ==
  IF tokens = 0 THEN setInstructionsMessage(w, MSG_TURN)
  ELSE [w EXCEPT !.cell = TokenString(tokens)]

\* Row offset of the first marker cell holding the active-player marker;
\* Null when the text finder finds none (the code then throws a TypeError).
getActivePlayer(w) ==
  IF \E i \in 1..MAX_PLAYER_COUNT : w.marker[i] = ACTIVE_PLAYER_MARKER
  THEN (CHOOSE i \in 1..MAX_PLAYER_COUNT :
          /\ w.marker[i] = ACTIVE_PLAYER_MARKER
          /\ \A j \in 1..(i - 1) : w.marker[j] # ACTIVE_PLAYER_MARKER) - 1
  ELSE Null

setActivePlayer(w, player) ==
  [w EXCEPT !.marker = [i \in 1..MAX_PLAYER_COUNT |->
                          IF i = player + 1 THEN ACTIVE_PLAYER_MARKER ELSE ""]]

\* Number of non-blank cells among the MAX_PLAYER_COUNT name cells.
getPlayerCount(w) ==
  Cardinality({i \in 1..Len(w.names) : w.names[i] # ""})

enableHotspot(w, location, script) == [w EXCEPT !.hot[location] = script]

resetHotspot(w, location) == [w EXCEPT !.hot[location] = ""]

(***************************************************************************)
(* LOGICAL ACTIONS (v1.0)                                                  *)
(***************************************************************************)
\* Faulty variant: the drawn card is not removed from the deck.
drawCard_KeepsCard(d, randIndex) ==
  [card |-> d[randIndex], remainingDeck |-> d]

\* randIndex is the outcome of randInt, here 1-based.
\* An index past the end reads undefined and splices nothing.
drawCard(d, randIndex) ==
  IF randIndex <= Len(d)
  THEN [card |-> d[randIndex], remainingDeck |-> RemoveAt(d, randIndex)]
  ELSE [card |-> Undefined, remainingDeck |-> d]

\* The setup loop: one drawCard per random outcome in rs.
RECURSIVE RemoveDraws(_, _)
RemoveDraws(d, rs) ==
  IF rs = <<>> THEN d
  ELSE RemoveDraws(drawCard(d, Head(rs)).remainingDeck, Tail(rs))

\* The deck without the cards divisible by ten.
RECURSIVE FilterTens(_)
FilterTens(d) ==
  IF d = <<>> THEN <<>>
  ELSE IF Head(d) % 10 # 0 THEN <<Head(d)>> \o FilterTens(Tail(d))
  ELSE FilterTens(Tail(d))

\* The full range before the blind removals.
FullDeck ==
  IF REMOVE_TENS THEN FilterTens(xrange(MIN_CARD, MAX_CARD + 1))
  ELSE xrange(MIN_CARD, MAX_CARD + 1)

\* Number of blind draws newDeck makes.
SetupDraws ==
  LET cardsRemoved == MAX_CARD - MIN_CARD + 1 - Len(FullDeck)
  IN IF cardsRemoved < SETUP_CARDS_REMOVED
     THEN SETUP_CARDS_REMOVED - cardsRemoved ELSE 0

\* rs: the random outcomes of the SetupDraws draws.
newDeck(rs) == RemoveDraws(FullDeck, rs)

\* Null stands for the thrown "Unsupported player count".
tokensPerPlayer(playerCount) ==
  CASE playerCount \in {3, 4, 5} -> 11
    [] playerCount = 6 -> 9
    [] playerCount = 7 -> 7
    [] OTHER -> Null

dealTokens(w, playerCount) ==
  LET tokens == tokensPerPlayer(playerCount)
  IN IF tokens = Null THEN Throw(w, "Unsupported player count")
     ELSE [w EXCEPT !.ptok = [i \in 1..playerCount |-> tokens]]

\* Faulty variant: the pool is cleared and nobody is credited.
takeTokensFromPool_NoCredit(w, player) ==
  setTokensInPool(w, 0)

takeTokensFromPool(w, player) ==
  LET pool == getTokensInPool(w)
      w1 == IF pool > 0
            THEN [w EXCEPT !.ptok[player + 1] = w.ptok[player + 1] + pool]
            ELSE w
  IN setTokensInPool(w1, 0)

\* Faulty variant: the pool grows but the player's cell is not debited.
addTokenToPool_NoDebit(w, player) ==
  LET current == w.ptok[player + 1]
  IN IF current = 0 THEN Throw(w, "doesn't have any tokens left!")
     ELSE setTokensInPool(w, Num(getTokensInPool(w)) + 1)

\* Faulty variant: the test for an empty personal pool is missing.
addTokenToPool_Unchecked(w, player) ==
  LET current == w.ptok[player + 1]
      w1 == [w EXCEPT !.ptok[player + 1] = current - 1]
  IN setTokensInPool(w1, Num(getTokensInPool(w1)) + 1)

addTokenToPool(w, player) ==
  LET current == w.ptok[player + 1]
  IN IF current = 0 THEN Throw(w, "doesn't have any tokens left!")
     ELSE LET w1 == [w EXCEPT !.ptok[player + 1] = current - 1]
              pool == getTokensInPool(w1)
          IN setTokensInPool(w1, Num(pool) + 1)

\* Variant of advanceActivePlayer that does not wrap around.
advanceActivePlayer_NoWrap(w) ==
  LET activePlayer == getActivePlayer(w)
      nextPlayer == activePlayer + 1
  IN setActivePlayer(w, nextPlayer)

advanceActivePlayer(w) ==
  LET activePlayer == getActivePlayer(w)
      playerCount == getPlayerCount(w)
      nextPlayer == (activePlayer + 1) % playerCount
  IN setActivePlayer(w, nextPlayer)

(***************************************************************************)
(* Hands: the card cells of a player row.  A cell holds a number, or, for  *)
(* the cards of a run after its first, the number as text.                 *)
(***************************************************************************)
\* Faulty variant: a run is closed when it is at least two cards long.
RECURSIVE GroupRuns_Pairs(_, _, _)
GroupRuns_Pairs(sorted, currentRun, acc) ==
  IF sorted = <<>>
  THEN IF Len(currentRun) > 0 THEN Append(acc, currentRun) ELSE acc
  ELSE LET num == Head(sorted)
       IN IF Len(currentRun) > 0 /\ (currentRun[Len(currentRun)] # num - 1
                                      \/ Len(currentRun) >= 2)
          THEN GroupRuns_Pairs(Tail(sorted), <<num>>, Append(acc, currentRun))
          ELSE GroupRuns_Pairs(Tail(sorted), Append(currentRun, num), acc)

RECURSIVE GroupRuns(_, _, _)
GroupRuns(sorted, currentRun, acc) ==
  IF sorted = <<>>
  THEN IF Len(currentRun) > 0 THEN Append(acc, currentRun) ELSE acc
  ELSE LET num == Head(sorted)
       IN IF Len(currentRun) > 0 /\ currentRun[Len(currentRun)] # num - 1
          THEN GroupRuns(Tail(sorted), <<num>>, Append(acc, currentRun))
          ELSE GroupRuns(Tail(sorted), Append(currentRun, num), acc)

\* Faulty variant: the numbers are grouped in the order given.
groupConsecutiveRuns_Unsorted(numbers) == GroupRuns(numbers, <<>>, <<>>)

groupConsecutiveRuns(numbers) == GroupRuns(sortInt(numbers), <<>>, <<>>)

\* renderPlayerCardRun: the first card as a number, the rest quoted as text.
RunCells(run) ==
  [i \in 1..Len(run) |-> [v |-> run[i], text |-> i > 1]]

RECURSIVE RenderRuns(_)
RenderRuns(runs) ==
  IF runs = <<>> THEN <<>> ELSE RunCells(Head(runs)) \o RenderRuns(Tail(runs))

\* The numbers read back from the cells (text cells through the regexp).
CellValues(cells) == [i \in 1..Len(cells) |-> cells[i].v]

addCardToPlayer(w, player, card) ==
  LET currentCards == Append(CellValues(w.hand[player + 1]), card)
  IN [w EXCEPT !.hand[player + 1] = RenderRuns(groupConsecutiveRuns(currentCards))]

\* Faulty variant: the test for a card still out is missing.
revealTopCardImpl_NoCheck(w, r) ==
  LET deck0 == getDeck(w)
  IN IF Len(deck0) = 0 THEN Throw(w, "No more cards in the deck!")
     ELSE LET drawn == drawCard(deck0, r)
              w1 == enableHotspot(w, "CARD", "takeCard")
              w2 == setCurrentCard(w1, drawn.card)
              w3 == resetHotspot(w2, "DECK")
              w4 == setDeck(w3, drawn.remainingDeck)
              w5 == enableHotspot(w4, "TOKENS", "noThanks")
          IN setTokensInPool(w5, 0)

\* r is the outcome of the random draw (1-based index into the deck).
revealTopCardImpl(w, r) ==
  LET currentCard0 == getCurrentCard(w)
      deck0 == getDeck(w)
  IN IF currentCard0 # Null THEN Throw(w, "card is still out")
     ELSE IF Len(deck0) = 0 THEN Throw(w, "No more cards in the deck!")
     ELSE LET drawn == drawCard(deck0, r)
              w1 == enableHotspot(w, "CARD", "takeCard")
              w2 == setCurrentCard(w1, drawn.card)
              w3 == resetHotspot(w2, "DECK")
              w4 == setDeck(w3, drawn.remainingDeck)
              w5 == enableHotspot(w4, "TOKENS", "noThanks")
          IN setTokensInPool(w5, 0)

\* Faulty variant: the option is ignored, the next card is never revealed.
enableDeck_HotspotOnly(w, r) ==
  setInstructionsMessage(enableHotspot(w, "DECK", "revealTopCard"),
                         MSG_REVEAL)

enableDeck(w, r) ==
  IF AUTO_REVEAL_NEXT_CARD THEN revealTopCardImpl(w, r)
  ELSE setInstructionsMessage(enableHotspot(w, "DECK", "revealTopCard"),
                              MSG_REVEAL)

\* Faulty variant: a player with no tokens may not take the card either.
takeCard_NeedsToken(w, r) ==
  LET card == getCurrentCard(w)
  IN IF card = Null THEN Throw(w, "No card revealed yet to take")
     ELSE IF getActivePlayer(w) # Null /\ w.ptok[getActivePlayer(w) + 1] = 0
     THEN Throw(w, "doesn't have any tokens left!")
     ELSE LET w1 == resetHotspot(w, "CARD")
              w2 == setCurrentCard(w1, Null)
              w3 == resetHotspot(w2, "TOKENS")
              player == getActivePlayer(w3)
          IN IF player = Null THEN Throw(w3, "TypeError")
             ELSE LET w4 == addCardToPlayer(w3, player, card)
                      w5 == takeTokensFromPool(w4, player)
                  IN IF Len(getDeck(w5)) > 0 THEN enableDeck(w5, r)
                     ELSE enableHotspot(
                            setInstructionsMessage(w5, MSG_END_GAME),
                            "TOKENS", "revealFinalScore")

\* Faulty variant: the card stays revealed after it is taken.
takeCard_KeepsCard(w, r) ==
  LET card == getCurrentCard(w)
  IN IF card = Null THEN Throw(w, "No card revealed yet to take")
     ELSE LET w1 == resetHotspot(w, "CARD")
              w3 == resetHotspot(w1, "TOKENS")
              player == getActivePlayer(w3)
          IN IF player = Null THEN Throw(w3, "TypeError")
             ELSE LET w4 == addCardToPlayer(w3, player, card)
                      w5 == takeTokensFromPool(w4, player)
                  IN IF Len(getDeck(w5)) > 0 THEN enableDeck(w5, r)
                     ELSE enableHotspot(
                            setInstructionsMessage(w5, MSG_END_GAME),
                            "TOKENS", "revealFinalScore")

\* The body takeCard passes to singleEntry.
takeCard(w, r) ==
  LET card == getCurrentCard(w)
  IN IF card = Null THEN Throw(w, "No card revealed yet to take")
     ELSE LET w1 == resetHotspot(w, "CARD")
              w2 == setCurrentCard(w1, Null)
              w3 == resetHotspot(w2, "TOKENS")
              player == getActivePlayer(w3)
          IN IF player = Null THEN Throw(w3, "TypeError")
             ELSE LET w4 == addCardToPlayer(w3, player, card)
                      w5 == takeTokensFromPool(w4, player)
                  IN IF Len(getDeck(w5)) > 0 THEN enableDeck(w5, r)
                     ELSE enableHotspot(
                            setInstructionsMessage(w5, MSG_END_GAME),
                            "TOKENS", "revealFinalScore")

\* Faulty variant: declining costs nothing; the turn just passes on.
noThanks_Free(w) ==
  IF getCurrentCard(w) = Null THEN Throw(w, "No card revealed yet!")
  ELSE IF getActivePlayer(w) = Null THEN Throw(w, "TypeError")
  ELSE advanceActivePlayer(w)

\* Faulty variant: the test for a revealed card is missing.
noThanks_NoCheck(w) ==
  IF getActivePlayer(w) = Null THEN Throw(w, "TypeError")
  ELSE LET w1 == addTokenToPool(w, getActivePlayer(w))
       IN IF w1.err # "" THEN w1 ELSE advanceActivePlayer(w1)

\* The body noThanks passes to singleEntry.
noThanks(w) ==
  LET currentCard0 == getCurrentCard(w)
  IN IF currentCard0 = Null THEN Throw(w, "No card revealed yet!")
     ELSE IF getActivePlayer(w) = Null THEN Throw(w, "TypeError")
     ELSE LET w1 == addTokenToPool(w, getActivePlayer(w))
          IN IF w1.err # "" THEN w1 ELSE advanceActivePlayer(w1)

(***************************************************************************)
(* Final score (v1.0).  A score cell holds a number, or an error when its  *)
(* formula cannot be computed.                                             *)
(***************************************************************************)
\* The card columns of a player row: the literal 24, the size of a new deck.
CARD_COLUMNS == MAX_CARD - MIN_CARD + 1 - SETUP_CARDS_REMOVED

\* The trophy, the second-place and the third-place medal, then blanks.
RANK_MARKERS == <<"trophy", "second", "third", "", "", "", "">>

NumberCell(n) == [error |-> FALSE, n |-> n]
ErrorCell == [error |-> TRUE, n |-> 0]

\* row.indexOf(""): the blank cells follow the cards, a full row has none.
IndexOfBlank(cells) == IF Len(cells) >= CARD_COLUMNS THEN -1 ELSE Len(cells)

MaxOf(S) == CHOOSE m \in S : \A x \in S : x <= m

\* The cards in the first n card columns of a row.
FirstCells(cells, n) ==
  [i \in 1..(IF n < Len(cells) THEN n ELSE Len(cells)) |-> cells[i]]

\* SUM over card cells: a cell holding text counts for nothing.
RECURSIVE SumCells(_)
SumCells(cells) ==
  IF cells = <<>> THEN 0
  ELSE (IF Head(cells).text THEN 0 ELSE Head(cells).v) + SumCells(Tail(cells))

\* The formula of the score cell of a row, put maxCards columns into the
\* cards: SUM over the maxCards cells to its left, minus the tokens cell when
\* that holds a number.  With maxCards = 0 the range C[0]:C[-1] of the SUM
\* holds the formula's own cell.
ScoreFormula(w, row, maxCards) ==
  IF maxCards = 0 THEN ErrorCell
  ELSE LET tokens == IF row <= Len(w.ptok) THEN w.ptok[row] ELSE Null
       IN NumberCell(SumCells(FirstCells(w.hand[row], maxCards)) - Num(tokens))

\* intComparator on two score rows: the difference of two error values is
\* NaN, which sort takes for 0.
ScoreLess(a, b) == ~a.error /\ ~b.error /\ a.n < b.n

\* scoresRanked.indexOf(score): the place of the row itself in the sorted
\* copy (sort is stable, and indexOf compares the row arrays by identity).
RankIndexOf(sc, i) ==
  Cardinality({j \in 1..Len(sc) : ScoreLess(sc[j], sc[i])})
  + Cardinality({j \in 1..(i - 1) :
                   ~ScoreLess(sc[j], sc[i]) /\ ~ScoreLess(sc[i], sc[j])})

\* The cells from column maxCards on are merged across, which keeps the
\* content of the first only, and the formula is written to that first cell.
renderFinalScore(w) ==
  LET numPlayers == getPlayerCount(w)
      maxCards == MaxOf({IndexOfBlank(w.hand[i]) : i \in 1..numPlayers})
      sc == [i \in 1..numPlayers |-> ScoreFormula(w, i, maxCards)]
  IN [w EXCEPT !.score = sc,
               !.hand = [i \in 1..Len(w.hand) |->
                           IF i <= numPlayers
                           THEN FirstCells(w.hand[i], maxCards)
                           ELSE w.hand[i]],
               !.marker = [i \in 1..MAX_PLAYER_COUNT |->
                             IF i <= numPlayers
                             THEN RANK_MARKERS[RankIndexOf(sc, i) + 1]
                             ELSE w.marker[i]]]

\* The body revealFinalScore passes to singleEntry.  revealTokens changes
\* the number format of the token cells only.
revealFinalScore(w) ==
  LET w1 == resetHotspot(w, "TOKENS")
      w2 == setInstructionsMessage(w1, "")
  IN renderFinalScore(w2)

(***************************************************************************)
(* New table (v1.0)                                                        *)
(***************************************************************************)
\* The "No" button of the starting-player prompt, and an unparsable entry.
NoPick == -1
NaN == -2

\* typed: the parsed entry minus one, NaN, or NoPick (the option is off, or
\* the button is not YES); rnd: randInt's outcome.
\* Null stands for the thrown "Invalid start player value".
setStartingPlayer(players, typed, rnd) ==
  IF typed # NoPick
  THEN IF typed >= 0 /\ typed < Len(players) THEN typed ELSE Null
  ELSE rnd

\* fresh: the deck newDeck() returned; typed: the user's entry; rnd, r: the
\* random outcomes.
newGame(w, players, fresh, typed, rnd, r) ==
  LET w1 == setDeck(w, fresh)
      w2 == dealTokens(w1, Len(players))
      startPlayer == setStartingPlayer(players, typed, rnd)
  IN IF w2.err # "" THEN w2
     ELSE IF startPlayer = Null THEN Throw(w2, "Invalid start player value")
     ELSE enableDeck(setActivePlayer(w2, startPlayer), r)

RECURSIVE ShuffleFrom(_, _, _)
\* Faulty variant: the temporary value is not written back.
ShuffleFrom_Overwrite(array, i, rnd) ==
  IF i <= 0 THEN array
  ELSE ShuffleFrom([array EXCEPT ![i + 1] = array[rnd[i] + 1]], i - 1, rnd)

\* Fisher-Yates from the last index down; rnd[i] is randInt(i), 0-based.
ShuffleFrom(array, i, rnd) ==
  IF i <= 0 THEN array
  ELSE ShuffleFrom([array EXCEPT ![i + 1] = array[rnd[i] + 1],
                                 ![rnd[i] + 1] = array[i + 1]],
                   i - 1, rnd)

shuffle(array, rnd) == ShuffleFrom(array, Len(array) - 1, rnd)

\* shuffle of lines 2112-2121: the loop starts at i = array.length and
\* swaps array[i - 1] with array[randInt(i - 1)]; rnd[i] is that outcome.
RECURSIVE ShuffleFromLength(_, _, _)
ShuffleFromLength(array, i, rnd) ==
  IF i <= 0 THEN array
  ELSE ShuffleFromLength([array EXCEPT ![i] = array[rnd[i] + 1],
                                       ![rnd[i] + 1] = array[i]],
                         i - 1, rnd)

shuffleFromLength(array, rnd) == ShuffleFromLength(array, Len(array), rnd)

RECURSIVE FilterNonBlank(_)
FilterNonBlank(ns) ==
  IF ns = <<>> THEN <<>>
  ELSE IF Head(ns) # "" THEN <<Head(ns)>> \o FilterNonBlank(Tail(ns))
  ELSE FilterNonBlank(Tail(ns))

\* The non-blank names of the sheet named "Table", when there is one.
getPlayersFromPreviousTable(w) == FilterNonBlank(w.names)

\* typedNames: the names entered at the prompts.
getNewPlayersFromUser(typedNames) ==
  IF Len(typedNames) < MIN_PLAYERS \/ Len(typedNames) > MAX_PLAYER_COUNT
  THEN [err |-> "We only support between 3 to 7 players", players |-> <<>>]
  ELSE [err |-> "", players |-> typedNames]

\* same: the answer to "Same Players?", asked only when a table exists.
getPlayersForNewTable(w, hasTable, same, typedNames) ==
  IF hasTable /\ same
  THEN [err |-> "", players |-> getPlayersFromPreviousTable(w)]
  ELSE getNewPlayersFromUser(typedNames)

renderNewTable(w, players) ==
  [w EXCEPT !.names = players,
            !.hand = [i \in 1..Len(players) |-> <<>>],
            !.hot = [l \in Locations |-> ""]]

\* The body newTable passes to singleEntry, run on the sheet just inserted.
\* SHUFFLE_PLAYERS is "yes": players is what shuffle returned.
newTable(w, players, fresh, typed, rnd, r) ==
  LET w1 == renderNewTable(FreshSheet(w.deck), players)
  IN newGame(w1, players, fresh, typed, rnd, r)

(***************************************************************************)
(* The revision of src/code.gs.js lines 843-1267, whose singleEntry is the *)
(* metadata-timestamp lock: its token pool and the body of its noThanks.   *)
(* (Lines 1-527 have the same noThanks and the same lock, but throw the    *)
(* "Lock active" message instead of showing it.)                           *)
(***************************************************************************)
\* The box holds tokens only; a blank box reads as null.
getCurrentTokens(w) == IF w.cell.text = "" THEN Null ELSE w.cell.n

setCurrentTokens(w, tokens) == [w EXCEPT !.cell = TokenString(tokens)]

\* JavaScript's a + b, for a stored count a (a number, null, or undefined
\* when the key is missing) and an amount b (a number, or undefined).
Plus(a, b) ==
  IF a \in {Undefined, NaN} \/ b = Undefined THEN NaN
  ELSE Num(a) + b

\* JSON.stringify writes NaN as null.
Serialized(x) == IF x = NaN THEN Null ELSE x

\* playerTokens[player] = tokens, then the JSON round trip of
\* setPlayerTokens and getPlayerTokens.  The object is a sequence: key k is
\* position k + 1.
StoreTokens(w, player, tokens) ==
  IF player + 1 <= Len(w.ptok)
  THEN [w EXCEPT !.ptok[player + 1] = Serialized(tokens)]
  ELSE [w EXCEPT !.ptok = Append(w.ptok, Serialized(tokens))]

\* The tokens of all players are one JSON value, read and written whole.
\* A player the object has no key for reads as undefined.
addTokensToPlayer(w, player, tokens) ==
  LET current == IF player + 1 <= Len(w.ptok) THEN w.ptok[player + 1]
                 ELSE Undefined
      newPlayerTokensCount == Plus(current, tokens)
  IN IF newPlayerTokensCount # NaN /\ newPlayerTokensCount < 0
     THEN Throw(w, "Not enough tokens")
     ELSE StoreTokens(w, player, newPlayerTokensCount)

\* With no card revealed it shows a message box and returns.
noThanksMetadata(w) ==
  IF getCurrentCard(w) = Null THEN w
  ELSE IF getActivePlayer(w) = Null THEN Throw(w, "TypeError")
  ELSE LET w1 == addTokensToPlayer(w, getActivePlayer(w), -1)
       IN IF w1.err # "" THEN w1
          ELSE advanceActivePlayer(
                 setCurrentTokens(w1, Num(getCurrentTokens(w1)) + 1))

(***************************************************************************)
(* dealTokens before v1.0.  The revisions of src/code.gs.js lines 1-527,   *)
(* 1269-2121 and 3169-3837 deal with one addTokensToPlayer per player; the *)
(* revision of src/unnamed/part_000 builds the object and writes it once.  *)
(***************************************************************************)
\* The if-chain of dealTokens: var tokens stays undefined above 7 players.
tokensOfDeal(playerCount) ==
  IF playerCount <= 5 THEN 11
  ELSE IF playerCount = 6 THEN 9
  ELSE IF playerCount = 7 THEN 7
  ELSE Undefined

\* addTokensToPlayer of lines 1542-1553 and 3353-3364: a missing key is 0.
addTokensToPlayerOrZero(w, player, tokens) ==
  LET playersTokens == IF player + 1 <= Len(w.ptok) THEN w.ptok[player + 1]
                       ELSE 0
      newPlayerTokensCount == Plus(playersTokens, tokens)
  IN IF newPlayerTokensCount # NaN /\ newPlayerTokensCount < 0
     THEN Throw(w, "doesn't have any tokens left!")
     ELSE StoreTokens(w, player, newPlayerTokensCount)

\* dealTokens of src/unnamed/part_000: JSON.stringify leaves out the keys
\* whose value is undefined.
dealTokensProperty(w, playerCount) ==
  LET tokens == tokensOfDeal(playerCount)
  IN IF tokens = Undefined THEN [w EXCEPT !.ptok = <<>>]
     ELSE [w EXCEPT !.ptok = [i \in 1..playerCount |-> tokens]]

(***************************************************************************)
(* The revision of src/code.gs.js lines 1-527: one sheet, the names typed  *)
(* into its cells, and a menu item "New Game" that resets it.              *)
(***************************************************************************)
\* The cards of the row as numbers, sorted; this revision draws no runs.
addCardToPlayerSorted(w, player, card) ==
  LET currentCards == sortInt(Append(CellValues(w.hand[player + 1]), card))
  IN [w EXCEPT !.hand[player + 1] =
        [i \in 1..Len(currentCards) |-> [v |-> currentCards[i], text |-> FALSE]]]

resetPlayerCards(w) == [w EXCEPT !.hand = [i \in 1..Len(w.hand) |-> <<>>]]

\* The body revealTopCard passes to singleEntry.
revealTopCardMetadata(w, r) ==
  LET currentCard0 == getCurrentCard(w)
      deck0 == getDeck(w)
  IN IF currentCard0 # Null THEN Throw(w, "card is still out")
     ELSE IF Len(deck0) = 0 THEN Throw(w, "No more cards in the deck!")
     ELSE LET drawn == drawCard(deck0, r)
              w1 == enableHotspot(w, "CARD", "takeCard")
              w2 == setCurrentCard(w1, drawn.card)
              w3 == resetHotspot(w2, "DECK")
              w4 == setDeck(w3, drawn.remainingDeck)
              w5 == enableHotspot(w4, "TOKENS", "noThanks")
          IN setCurrentTokens(w5, 0)

\* The body takeCard passes to singleEntry.  With no card revealed it shows
\* a message box and returns.  A blank pool reads as null, which adds 0.
takeCardMetadata(w) ==
  LET card == getCurrentCard(w)
      tokens == getCurrentTokens(w)
  IN IF card = Null THEN w
     ELSE LET w1 == resetHotspot(w, "CARD")
              w2 == setCurrentCard(w1, Null)
              w3 == resetHotspot(w2, "TOKENS")
              w4 == setCurrentTokens(w3, 0)
              player == getActivePlayer(w4)
          IN IF player = Null THEN Throw(w4, "TypeError")
             ELSE LET w5 == addCardToPlayerSorted(w4, player, card)
                      w6 == addTokensToPlayer(w5, player, Num(tokens))
                  IN IF w6.err # "" THEN w6
                     ELSE IF Len(getDeck(w6)) > 0
                     THEN enableHotspot(w6, "DECK", "revealTopCard")
                     ELSE w6

\* range(playerCount - 1).forEach(player => addTokensToPlayer(player, tokens)),
\* from player on.
RECURSIVE DealEach(_, _, _, _)
DealEach(w, player, playerCount, tokens) ==
  IF player >= playerCount \/ w.err # "" THEN w
  ELSE DealEach(addTokensToPlayer(w, player, tokens), player + 1,
                playerCount, tokens)

\* The body newGame passes to singleEntry.  rnd: randInt(playerCount - 1);
\* fresh: the deck newDeck returns.
newGameMetadata(w, rnd, fresh) ==
  LET w1 == [w EXCEPT !.hot = [l \in Locations |-> ""]]
      w2 == setDeck(w1, <<>>)
      w3 == [w2 EXCEPT !.ptok = <<>>]
      w4 == setCurrentCard(w3, Null)
      w5 == setCurrentTokens(w4, 0)
      w6 == resetPlayerCards(w5)
      playerCount == getPlayerCount(w6)
      w7 == setActivePlayer(w6, rnd)
      w8 == DealEach(w7, 0, playerCount, tokensOfDeal(playerCount))
  IN IF w8.err # "" THEN w8
     ELSE setDeck(enableHotspot(w8, "DECK", "revealTopCard"), fresh)

(***************************************************************************)
(* The revision of src/unnamed/part_000: the tokens of the players are the *)
(* document property "playerTokens", the box holds the pool or a message.  *)


(***************************************************************************)
\* Only a string of tokens counts; a message or a blank box reads as null.
getCurrentTokensPart000(w) ==
  IF w.cell.text = "TOKENS" THEN w.cell.n ELSE Null

enableDeckPart000(w) ==
  setInstructionsMessage(enableHotspot(w, "DECK", "revealTopCard"), MSG_REVEAL)

\* Faulty variant: the card drawn stays in the deck.
revealTopCardPart000_KeepsDeck(w, r) ==
  LET currentCard0 == getCurrentCard(w)
      deck0 == getDeck(w)
  IN IF currentCard0 # Null THEN Throw(w, "card is still out")
     ELSE IF Len(deck0) = 0 THEN Throw(w, "No more cards in the deck!")
     ELSE LET drawn == drawCard(deck0, r)
              w1 == enableHotspot(w, "CARD", "takeCard")
              w2 == setCurrentCard(w1, drawn.card)
              w3 == resetHotspot(w2, "DECK")
              w5 == enableHotspot(w3, "TOKENS", "noThanks")
          IN setInstructionsMessage(w5, MSG_TURN)

\* The body revealTopCard passes to singleEntry.
revealTopCardPart000(w, r) ==
  LET currentCard0 == getCurrentCard(w)
      deck0 == getDeck(w)
  IN IF currentCard0 # Null THEN Throw(w, "card is still out")
     ELSE IF Len(deck0) = 0 THEN Throw(w, "No more cards in the deck!")
     ELSE LET drawn == drawCard(deck0, r)
              w1 == enableHotspot(w, "CARD", "takeCard")
              w2 == setCurrentCard(w1, drawn.card)
              w3 == resetHotspot(w2, "DECK")
              w4 == setDeck(w3, drawn.remainingDeck)
              w5 == enableHotspot(w4, "TOKENS", "noThanks")
          IN setInstructionsMessage(w5, MSG_TURN)

\* Faulty variant: the box keeps the tokens of the card taken; no message
\* is written over them.
takeCardPart000_KeepsBox(w) ==
  LET card == getCurrentCard(w)
      tokens == getCurrentTokensPart000(w)
  IN IF card = Null THEN Throw(w, "No card revealed yet to take")
     ELSE LET w1 == resetHotspot(w, "CARD")
              w2 == setCurrentCard(w1, Null)
              w3 == resetHotspot(w2, "TOKENS")
              player == getActivePlayer(w3)
          IN IF player = Null THEN Throw(w3, "TypeError")
             ELSE LET w4 == addCardToPlayer(w3, player, card)
                      w5 == IF tokens > 0
                            THEN addTokensToPlayerOrZero(w4, player, tokens)
                            ELSE w4
                  IN IF Len(getDeck(w5)) > 0
                     THEN enableHotspot(w5, "DECK", "revealTopCard")
                     ELSE enableHotspot(w5, "TOKENS", "revealTokens")

\* Faulty variant: the turn passes on when the card is taken.
takeCardPart000_Advances(w) ==
  LET card == getCurrentCard(w)
      tokens == getCurrentTokensPart000(w)
  IN IF card = Null THEN Throw(w, "No card revealed yet to take")
     ELSE LET w1 == resetHotspot(w, "CARD")
              w2 == setCurrentCard(w1, Null)
              w3 == resetHotspot(w2, "TOKENS")
              player == getActivePlayer(w3)
          IN IF player = Null THEN Throw(w3, "TypeError")
             ELSE LET w4 == addCardToPlayer(w3, player, card)
                      w5 == IF tokens > 0
                            THEN addTokensToPlayerOrZero(w4, player, tokens)
                            ELSE w4
                      w6 == advanceActivePlayer(w5)
                  IN IF Len(getDeck(w6)) > 0 THEN enableDeckPart000(w6)
                     ELSE enableHotspot(
                            setInstructionsMessage(w6, MSG_END_GAME),
                            "TOKENS", "revealTokens")

\* The body takeCard passes to singleEntry.
takeCardPart000(w) ==
  LET card == getCurrentCard(w)
      tokens == getCurrentTokensPart000(w)
  IN IF card = Null THEN Throw(w, "No card revealed yet to take")
     ELSE LET w1 == resetHotspot(w, "CARD")
              w2 == setCurrentCard(w1, Null)
              w3 == resetHotspot(w2, "TOKENS")
              player == getActivePlayer(w3)
          IN IF player = Null THEN Throw(w3, "TypeError")
             ELSE LET w4 == addCardToPlayer(w3, player, card)
                      w5 == IF tokens > 0
                            THEN addTokensToPlayerOrZero(w4, player, tokens)
                            ELSE w4
                  IN IF Len(getDeck(w5)) > 0 THEN enableDeckPart000(w5)
                     ELSE enableHotspot(
                            setInstructionsMessage(w5, MSG_END_GAME),
                            "TOKENS", "revealTokens")

\* The body noThanks passes to singleEntry.
noThanksPart000(w) ==
  IF getCurrentCard(w) = Null THEN Throw(w, "No card revealed yet!")
  ELSE IF getActivePlayer(w) = Null THEN Throw(w, "TypeError")
  ELSE LET w1 == addTokensToPlayerOrZero(w, getActivePlayer(w), -1)
       IN IF w1.err # "" THEN w1
          ELSE advanceActivePlayer(
                 setCurrentTokens(w1, Num(getCurrentTokensPart000(w1)) + 1))

\* The prompt is always shown.  typed: the parsed entry minus one, NaN, or
\* NoPick (the button is NO); rnd: randInt's outcome.
setStartingPlayerPart000(w, players, typed, rnd) ==
  LET startPlayer == IF typed = NoPick THEN rnd ELSE typed
  IN IF ~(startPlayer >= 0 /\ startPlayer < Len(players))
     THEN Throw(w, "Invalid start player value")
     ELSE setActivePlayer(w, startPlayer)

newGamePart000(w, players, fresh, typed, rnd) ==
  LET w1 == setDeck(w, fresh)
      w2 == dealTokensProperty(w1, Len(players))
      w3 == setStartingPlayerPart000(w2, players, typed, rnd)
  IN IF w3.err # "" THEN w3 ELSE enableDeckPart000(w3)

\* The body newTable passes to singleEntry, from renderNewTable on; players
\* is the list after the "Randomize player order?" question.
newTablePart000(w, players, fresh, typed, rnd) ==
  LET w1 == renderNewTable([FreshSheet(w.deck) EXCEPT !.ptok = w.ptok],
                           players)
  IN newGamePart000(w1, players, fresh, typed, rnd)

(***************************************************************************)
(* The concurrency gate: singleEntry.                                      *)
(***************************************************************************)
Procs == 1..NumInvocations
Users == 1..NumUsers

\* Values of the metadata "lock": no such key, or the key with "".
NoMeta == -1
EmptyValue == 0

\* No call of groupConsecutiveRuns is being followed.
NoRuns == [pc |-> "idle", numbers |-> <<>>, out |-> <<>>]

\* No call of newDeck is being followed.
NoBuild == [pc |-> "idle", removeTens |-> FALSE, deck |-> <<>>,
            cardsRemoved |-> 0, from |-> <<>>, card |-> Undefined]

\* No reveal and no take yet.
NoCount == [reveals |-> 0, takes |-> 0]

\* No call of dealTokens is being followed.
NoDeal == [playerCount |-> 0, pc |-> "idle", player |-> 0]

\* An invocation that has not started: its position, its user, and the
\* locals of singleEntry and of the body (ran, changed: what it has done).
IdleInv(u) ==
  [pc |-> "idle", user |-> u, meta |-> 0, ts |-> 0, began |-> 0,
   player |-> 0, tok |-> <<>>, current |-> 0, pool |-> 0,
   thrown |-> FALSE, ran |-> FALSE, changed |-> FALSE]

\* The metadata object with key "lock": added, with the empty value, when
\* the finder finds none.  Taken as one step of the sheet.
getSheetMetadataObject(m) ==
  IF m.val = NoMeta THEN [id |-> m.id + 1, val |-> EmptyValue] ELSE m

resetSheetMetadataObject(m) == [m EXCEPT !.val = NoMeta]

\* The test of the metadata lock: a value is stored and lies in the future.
LockIsActive(timeoutStr, timestamp) ==
  timeoutStr # EmptyValue /\ timeoutStr > timestamp

\* The value singleEntry stores in the metadata.
LockExpiry(timestamp) == timestamp + MUTEX_LOCKOUT_PERIOD_MS

\* Faulty variant: the wait outlasts the lockout period.
WaitDeadline_Late(began) == began + MUTEX_LOCKOUT_PERIOD_MS + 1

\* lock.waitLock(MUTEX_LOCKOUT_PERIOD_MS): the time at which it gives up.
WaitDeadline(began) == began + MUTEX_LOCKOUT_PERIOD_MS

\* Faulty variant: no finally, a throw leaves singleEntry at once.
AfterBody_NoFinally(thrown) == IF thrown THEN "threw" ELSE "fin"

\* try { func() } finally { release }: where control goes when func ends,
\* by a return or by a throw.
AfterBody(thrown) == "fin"

\* The positions of an invocation inside the guarded body.
BodyPcs == {"b1", "b2", "b3", "b4", "b5", "b6", "b7", "b8"}

(***************************************************************************)
(* Inputs: what the users type and what Math.random() yields.              *)
(***************************************************************************)
NameChoices == {"P", ""}

NameLists ==
  UNION {{ns \in [1..k -> NameChoices] :
            Cardinality({i \in 1..k : ns[i] = ""}) <= MaxBlankNames}
         : k \in MIN_PLAYERS..MaxNames}

\* Outcomes of the random draws of newDeck: the j-th draw indexes a deck
\* that has lost j-1 cards.
DrawSeqs ==
  {rs \in [1..SetupDraws -> 1..Len(FullDeck)] :
     \A j \in 1..SetupDraws : rs[j] <= Len(FullDeck) - j + 1}

\* The decks newDeck can return.
NewDecks == {newDeck(rs) : rs \in DrawSeqs}

\* Outcomes of the random draws of shuffle on an array of n elements.
ShuffleRandoms(n) ==
  {f \in [1..(n - 1) -> 0..(n - 1)] : \A i \in 1..(n - 1) : f[i] <= i}

\* The orders shuffle can return.
Shuffles(array) == {shuffle(array, f) : f \in ShuffleRandoms(Len(array))}

\* OPTIONS.SETUP.PICK_START_PLAYER as shipped, and switched on by whoever
\* installs the script.
PickStartPlayerSettings == {PICK_START_PLAYER, ~PICK_START_PLAYER}

\* Entries at the starting-player prompt (asked only with PICK_START_PLAYER).
StartEntries ==
  UNION {IF pick THEN {NoPick, NaN} \cup (0..MaxNames) ELSE {NoPick}
         : pick \in PickStartPlayerSettings}

\* Outcomes of the draw of a reveal (one only when no draw is made).
DrawIndexes(d) == IF Len(d) = 0 THEN {1} ELSE 1..Len(d)

(***************************************************************************)
(* The state machine.                                                      *)
(***************************************************************************)
Install(w) ==
  /\ deck' = w.deck
  /\ currentCard' = w.card
  /\ tokensCell' = w.cell
  /\ markerCol' = w.marker
  /\ playerNames' = w.names
  /\ playerTokens' = w.ptok
  /\ hands' = w.hand
  /\ hotspots' = w.hot
  /\ scores' = w.score

Init ==
  /\ tableExists = FALSE
  /\ deck = <<>>
  /\ currentCard = Null
  /\ tokensCell = BlankCell
  /\ markerCol = [i \in 1..MAX_PLAYER_COUNT |-> ""]
  /\ playerNames = <<>>
  /\ playerTokens = <<>>
  /\ hands = <<>>
  /\ hotspots = [l \in Locations |-> ""]
  /\ scores = <<>>
  /\ rejected = 0
  /\ moves = 0
  /\ last = [op |-> "", err |-> ""]
  /\ mech = "userlock"
  /\ inv = [i \in Procs |-> IdleInv(1)]
  /\ lockMeta = [id |-> 0, val |-> NoMeta]
  /\ userLock = [u \in Users |-> 0]
  /\ now = 0
  /\ startWorld = FreshSheet(<<>>)
  /\ deal = NoDeal
  /\ count = NoCount
  /\ newSheet = 0
  /\ grouped = NoRuns
  /\ build = NoBuild
  /\ revision = "v1.0"

\* The menu item "New Table".  When the guarded body throws, the sheet
\* being created is deleted and the previous Table sheet stays; what the
\* body wrote to the document properties stays too.
NewTable ==
  \E same \in (IF tableExists THEN BOOLEAN ELSE {FALSE}) :
  \E typedNames \in (IF same THEN {<<>>} ELSE NameLists) :
    LET got == getPlayersForNewTable(World, tableExists, same, typedNames)
    IN IF got.err # ""
       THEN /\ rejected < MaxRejected
            /\ rejected' = rejected + 1
            /\ last' = [op |-> "newTable", err |-> got.err]
            /\ UNCHANGED <<gameVars, moves>>
       ELSE \E players \in Shuffles(got.players) :
            \E fresh \in NewDecks :
            \E typed \in StartEntries :
            \E rnd \in (IF typed = NoPick THEN 0..(Len(got.players) - 1)
                        ELSE {0}) :
            \E r \in (IF AUTO_REVEAL_NEXT_CARD
                      THEN 1..(Len(FullDeck) - SetupDraws) ELSE {1}) :
              LET w == newTable(World, players, fresh, typed, rnd, r)
              IN IF w.err = ""
                 THEN /\ Install(w)
                      /\ tableExists' = TRUE
                      /\ rejected' = 0
                      /\ moves' = 0
                      /\ last' = [op |-> "newTable", err |-> ""]
                 ELSE /\ rejected < MaxRejected
                      /\ rejected' = rejected + 1
                      /\ deck' = w.deck
                      /\ last' = [op |-> "newTable", err |-> w.err]
                      /\ UNCHANGED <<tableExists, currentCard, tokensCell,
                                     markerCol, playerNames, playerTokens,
                                     hands, hotspots, scores, moves>>

\* The first table of a document.
FirstTable == ~tableExists /\ NewTable

\* A new table while one exists.
NextTable == tableExists /\ NewTable

\* Click on the DECK hotspot (or any other invocation of revealTopCard).
RevealTopCard ==
  /\ tableExists
  /\ \E r \in DrawIndexes(deck) :
       LET w == revealTopCardImpl(World, r)
       IN /\ Install(w)
          /\ last' = [op |-> "revealTopCard", err |-> w.err]
  /\ UNCHANGED <<tableExists, rejected>>

\* Click on the CARD hotspot (or any other invocation of takeCard).
TakeCard ==
  /\ tableExists
  /\ \E r \in (IF AUTO_REVEAL_NEXT_CARD THEN DrawIndexes(deck) ELSE {1}) :
       LET w == takeCard(World, r)
       IN /\ Install(w)
          /\ last' = [op |-> "takeCard", err |-> w.err]
  /\ UNCHANGED <<tableExists, rejected>>

\* Click on the TOKENS hotspot (or any other invocation of noThanks).
NoThanks ==
  /\ tableExists
  /\ LET w == noThanks(World)
     IN /\ Install(w)
        /\ last' = [op |-> "noThanks", err |-> w.err]
  /\ UNCHANGED <<tableExists, rejected>>

(***************************************************************************)
(* Concurrent invocations of noThanks through singleEntry.  Each call of   *)
(* the spreadsheet service is one step; the steps of different invocations *)
(* interleave.                                                             *)
(***************************************************************************)
\* The table the invocations start from: three players, a card revealed.
\* With scenario "low" all tokens but one have been passed to the pool.
Scenarios == {"fresh", "low"}

noThanksOf(m, w) == IF m = "metadata" THEN noThanksMetadata(w) ELSE noThanks(w)

\* k invocations of noThanks one after the other; one that throws leaves
\* the state as it was.
RECURSIVE Serial(_, _, _)
Serial(m, w, k) ==
  IF k = 0 \/ w.card = Null THEN w
  ELSE Serial(m, [noThanksOf(m, w) EXCEPT !.err = ""], k - 1)

RevealedTable(m) ==
  LET players == <<"P", "P", "P">>
      fresh == CHOOSE d \in NewDecks : TRUE
      w0 == newTable(FreshSheet(<<>>), players, fresh, NoPick, 0, 1)
      w1 == revealTopCardImpl(w0, 1)
  IN IF m = "metadata" THEN setCurrentTokens(w1, 0) ELSE w1

StartWorld(m, scenario) ==
  IF scenario = "fresh" THEN RevealedTable(m)
  ELSE Serial(m, RevealedTable(m), 3 * tokensPerPlayer(3) - 1)

\* Who invokes: the users are interchangeable, so they are numbered in the
\* order of their first invocation.  The metadata lock does not look at the
\* user at all.
UserAssignments(m) ==
  {us \in [Procs -> Users] :
     IF m = "metadata" THEN \A i \in Procs : us[i] = 1
     ELSE \A i \in Procs :
            \A u \in 1..(us[i] - 1) : \E j \in 1..(i - 1) : us[j] = u}

\* The locals of an invocation that has left singleEntry are gone.
Left(r, pc) ==
  [IdleInv(r.user) EXCEPT !.pc = pc, !.began = r.began, !.thrown = r.thrown,
                          !.ran = r.ran, !.changed = r.changed]

lockFrame == <<tableExists, rejected, moves, last, mech, startWorld, deal,
               revision, count, newSheet, grouped, build>>

LockInit ==
  /\ revision = "v1.0"
  /\ mech \in {"metadata", "userlock"}
  /\ \E scenario \in Scenarios : startWorld = StartWorld(mech, scenario)
  /\ deal = NoDeal
  /\ count = NoCount
  /\ newSheet = 0
  /\ grouped = NoRuns
  /\ build = NoBuild
  /\ tableExists = TRUE
  /\ deck = startWorld.deck
  /\ currentCard = startWorld.card
  /\ tokensCell = startWorld.cell
  /\ markerCol = startWorld.marker
  /\ playerNames = startWorld.names
  /\ playerTokens = startWorld.ptok
  /\ hands = startWorld.hand
  /\ hotspots = startWorld.hot
  /\ scores = startWorld.score
  /\ rejected = 0
  /\ moves = 0
  /\ last = [op |-> "", err |-> ""]
  /\ inv \in {[i \in Procs |-> IdleInv(us[i])] : us \in UserAssignments(mech)}
  /\ lockMeta = [id |-> 0, val |-> NoMeta]
  /\ userLock = [u \in Users |-> 0]
  /\ now = 0

\* singleEntry with the metadata lock, up to the test of the stored value.
EnterMetadata ==
  \E i \in Procs :
    /\ mech = "metadata"
    /\ inv[i].pc = "idle"
    /\ LET metadata == getSheetMetadataObject(lockMeta)
           timeoutStr == metadata.val
           timestamp == now
       IN /\ lockMeta' = metadata
          /\ inv' = [inv EXCEPT ![i] =
               IF LockIsActive(timeoutStr, timestamp)
               THEN Left([@ EXCEPT !.began = now,
                                   !.changed = metadata # lockMeta], "busy")
               ELSE [@ EXCEPT !.meta = metadata.id,
                              !.ts = timestamp,
                              !.changed = metadata # lockMeta,
                              !.pc = "set"]]
    /\ UNCHANGED <<gameVars, lockFrame, userLock, now>>

\* metadata.setValue(timestamp + MUTEX_LOCKOUT_PERIOD_MS).  When the object
\* has been removed meanwhile the call either throws or has no effect.
SetLockValue ==
  \E i \in Procs :
    /\ mech = "metadata"
    /\ inv[i].pc = "set"
    /\ IF lockMeta.val # NoMeta /\ lockMeta.id = inv[i].meta
       THEN /\ lockMeta' = [lockMeta EXCEPT !.val = LockExpiry(inv[i].ts)]
            /\ inv' = [inv EXCEPT ![i] = [@ EXCEPT !.pc = "b1",
                                                   !.meta = 0,
                                                   !.ts = 0,
                                                   !.changed = TRUE]]
       ELSE /\ UNCHANGED lockMeta
            /\ \/ inv' = [inv EXCEPT ![i] = Left(@, "crashed")]
               \/ inv' = [inv EXCEPT ![i] = [@ EXCEPT !.pc = "b1",
                                                      !.meta = 0,
                                                      !.ts = 0]]
    /\ UNCHANGED <<gameVars, lockFrame, userLock, now>>

\* singleEntry with the user lock: lock.waitLock(MUTEX_LOCKOUT_PERIOD_MS).
EnterUserLock ==
  \E i \in Procs :
    /\ mech = "userlock"
    /\ inv[i].pc = "idle"
    /\ inv' = [inv EXCEPT ![i] = [@ EXCEPT !.pc = "wait", !.began = now]]
    /\ UNCHANGED <<gameVars, lockFrame, lockMeta, userLock, now>>

\* waitLock returns: no other execution of the same user holds the lock.
Acquire ==
  \E i \in Procs :
    /\ inv[i].pc = "wait"
    /\ userLock[inv[i].user] = 0
    /\ userLock' = [userLock EXCEPT ![inv[i].user] = i]
    /\ inv' = [inv EXCEPT ![i] = [@ EXCEPT !.pc = "b1", !.began = 0,
                                            !.changed = TRUE]]
    /\ UNCHANGED <<gameVars, lockFrame, lockMeta, now>>

\* waitLock throws: the lock was not obtained within the period.
Timeout ==
  \E i \in Procs :
    /\ inv[i].pc = "wait"
    /\ userLock[inv[i].user] # 0
    /\ now >= WaitDeadline(inv[i].began)
    /\ inv' = [inv EXCEPT ![i] = Left(@, "busy")]
    /\ UNCHANGED <<gameVars, lockFrame, lockMeta, userLock, now>>

\* Time passes, but not beyond the moment a waitLock gives up.  Only the
\* differences between clock readings matter, so the clock is followed
\* while a reading of it is pending: a waitLock, a timestamp taken but not
\* yet stored, or an expiry stored in the metadata.
Tick ==
  /\ now < MaxTime
  /\ \/ \E i \in Procs : inv[i].pc \in {"wait", "set"}
     \/ lockMeta.val > EmptyValue
  /\ \A i \in Procs : inv[i].pc = "wait" => now < WaitDeadline(inv[i].began)
  /\ now' = now + 1
  /\ UNCHANGED <<gameVars, lockFrame, inv, lockMeta, userLock>>

\* The body of noThanks, one call of the spreadsheet service per step.
\* Throws(i): the body of invocation i throws.
Throws(i) == inv' = [inv EXCEPT ![i] = [@ EXCEPT !.pc = AfterBody(TRUE),
                                                 !.thrown = TRUE,
                                                 !.ran = TRUE]]

ReadCard ==
  \E i \in Procs :
    /\ inv[i].pc = "b1"
    /\ IF getCurrentCard(World) # Null
       THEN inv' = [inv EXCEPT ![i] = [@ EXCEPT !.pc = "b2", !.ran = TRUE]]
       ELSE IF mech = "metadata"
       THEN inv' = [inv EXCEPT ![i] = [@ EXCEPT !.pc = AfterBody(FALSE),
                                                !.ran = TRUE]]
       ELSE Throws(i)
    /\ UNCHANGED <<gameVars, lockFrame, lockMeta, userLock, now>>

ReadActivePlayer ==
  \E i \in Procs :
    /\ inv[i].pc \in {"b2", "b7"}
    /\ LET player == getActivePlayer(World)
       IN IF player = Null THEN Throws(i)
          ELSE inv' = [inv EXCEPT ![i] =
                 [@ EXCEPT !.player = player,
                           !.pc = IF inv[i].pc = "b2" THEN "b3" ELSE "b8"]]
    /\ UNCHANGED <<gameVars, lockFrame, lockMeta, userLock, now>>

\* getPlayerTokens() reads the tokens of all players; addTokenToPool reads
\* the cell of the one player.
ReadPlayerTokens ==
  \E i \in Procs :
    /\ inv[i].pc = "b3"
    /\ LET current == playerTokens[inv[i].player + 1]
           short == IF mech = "metadata" THEN current - 1 < 0 ELSE current = 0
       IN IF short THEN Throws(i)
          ELSE inv' = [inv EXCEPT ![i] =
                 [@ EXCEPT !.tok = IF mech = "metadata"
                                   THEN playerTokens ELSE <<>>,
                           !.current = current,
                           !.pc = "b4"]]
    /\ UNCHANGED <<gameVars, lockFrame, lockMeta, userLock, now>>

WritePlayerTokens ==
  \E i \in Procs :
    /\ inv[i].pc = "b4"
    /\ playerTokens' =
         [(IF mech = "metadata" THEN inv[i].tok ELSE playerTokens)
            EXCEPT ![inv[i].player + 1] = inv[i].current - 1]
    /\ inv' = [inv EXCEPT ![i] = [@ EXCEPT !.pc = "b5"]]
    /\ UNCHANGED <<tableExists, deck, currentCard, tokensCell, markerCol,
                   playerNames, hands, hotspots, scores, lockFrame, lockMeta,
                   userLock, now>>

ReadPool ==
  \E i \in Procs :
    /\ inv[i].pc = "b5"
    /\ inv' = [inv EXCEPT ![i] =
         [@ EXCEPT !.pool = IF mech = "metadata" THEN getCurrentTokens(World)
                            ELSE getTokensInPool(World),
                   !.pc = "b6"]]
    /\ UNCHANGED <<gameVars, lockFrame, lockMeta, userLock, now>>

WritePool ==
  \E i \in Procs :
    /\ inv[i].pc = "b6"
    /\ tokensCell' =
         (IF mech = "metadata"
          THEN setCurrentTokens(World, Num(inv[i].pool) + 1)
          ELSE setTokensInPool(World, Num(inv[i].pool) + 1)).cell
    /\ inv' = [inv EXCEPT ![i] = [@ EXCEPT !.pc = "b7"]]
    /\ UNCHANGED <<tableExists, deck, currentCard, markerCol, playerNames,
                   playerTokens, hands, hotspots, scores, lockFrame, lockMeta,
                   userLock, now>>

\* advanceActivePlayer, from its getPlayerCount on.
WriteActivePlayer ==
  \E i \in Procs :
    /\ inv[i].pc = "b8"
    /\ LET playerCount == getPlayerCount(World)
           nextPlayer == (inv[i].player + 1) % playerCount
       IN markerCol' = setActivePlayer(World, nextPlayer).marker
    /\ inv' = [inv EXCEPT ![i] = [@ EXCEPT !.pc = AfterBody(FALSE)]]
    /\ UNCHANGED <<tableExists, deck, currentCard, tokensCell, playerNames,
                   playerTokens, hands, hotspots, scores, lockFrame, lockMeta,
                   userLock, now>>

\* The finally block of singleEntry.
Release ==
  \E i \in Procs :
    /\ inv[i].pc = "fin"
    /\ IF mech = "metadata"
       THEN /\ lockMeta' = resetSheetMetadataObject(lockMeta)
            /\ UNCHANGED userLock
       ELSE /\ userLock' = [userLock EXCEPT ![inv[i].user] = 0]
            /\ UNCHANGED lockMeta
    /\ inv' = [inv EXCEPT ![i] =
         Left(inv[i], IF inv[i].thrown THEN "threw" ELSE "done")]
    /\ UNCHANGED <<gameVars, lockFrame, now>>

LockNext ==
  \/ EnterMetadata
  \/ SetLockValue
  \/ EnterUserLock
  \/ Acquire
  \/ Timeout
  \/ Tick
  \/ ReadCard
  \/ ReadActivePlayer
  \/ ReadPlayerTokens
  \/ WritePlayerTokens
  \/ ReadPool
  \/ WritePool
  \/ WriteActivePlayer
  \/ Release

LockSpec == LockInit /\ [][LockNext]_vars

\* One game: a table is made once, then played to its end.
Next ==
  \/ FirstTable /\ UNCHANGED lockVars
  \/ RevealTopCard /\ UNCHANGED <<moves, lockVars>>
  \/ TakeCard /\ UNCHANGED <<moves, lockVars>>
  \/ NoThanks /\ UNCHANGED <<moves, lockVars>>

Spec == Init /\ [][Next]_vars

\* Tables made (or attempted) at any time, each played for MaxMoves actions.
NextTables ==
  \/ FirstTable /\ UNCHANGED lockVars
  \/ NextTable /\ UNCHANGED lockVars
  \/ moves < MaxMoves /\ moves' = moves + 1 /\ RevealTopCard
       /\ UNCHANGED lockVars
  \/ moves < MaxMoves /\ moves' = moves + 1 /\ TakeCard
       /\ UNCHANGED lockVars
  \/ moves < MaxMoves /\ moves' = moves + 1 /\ NoThanks
       /\ UNCHANGED lockVars

SpecTables == Init /\ [][NextTables]_vars

(***************************************************************************)
(* One table of v1.0 with the successful reveals and takes counted.        *)
(***************************************************************************)
\* 1 when the step being taken ends without an error.
Succeeded == IF last'.err = "" THEN 1 ELSE 0

GameNext ==
  \/ FirstTable /\ count' = NoCount /\ UNCHANGED otherVars
  \/ RevealTopCard /\ count' = [count EXCEPT !.reveals = @ + Succeeded]
       /\ UNCHANGED <<moves, otherVars>>
  \/ TakeCard /\ count' = [count EXCEPT !.takes = @ + Succeeded]
       /\ UNCHANGED <<moves, otherVars>>
  \/ NoThanks /\ UNCHANGED <<count, moves, otherVars>>

SpecGame == Init /\ [][GameNext]_vars

(***************************************************************************)
(* dealTokens(playerCount) on its own, in each revision, for every player  *)
(* count from 0 to MaxDealCount.  It starts where newGame calls it: the    *)
(* sheet rendered, no tokens stored.                                       *)
(***************************************************************************)
\* The revisions by where their dealTokens is: src/code.gs.js lines 2498-2536
\* (v1.0), 174-197, 1542-1572 (the same at 3353-3382), and part_000 297-318.
DealRevisions == {"v1.0", "174-197", "1542-1572", "part_000"}

\* The revisions whose dealTokens calls addTokensToPlayer for each player.
LoopRevisions == {"174-197", "1542-1572"}

\* The sheet has MAX_PLAYER_COUNT name cells.
DealtNames(playerCount) ==
  [i \in 1..(IF playerCount < MAX_PLAYER_COUNT THEN playerCount
             ELSE MAX_PLAYER_COUNT) |-> "P"]

\* newGame of lines 116-138 calls setDeck(newDeck()) after dealTokens, the
\* other revisions before it.
DealInit ==
  \E rev \in DealRevisions :
  \E playerCount \in 0..MaxDealCount :
  \E fresh \in NewDecks :
    LET d == IF rev = "174-197" THEN <<>> ELSE fresh
        w == renderNewTable(FreshSheet(d), DealtNames(playerCount))
    IN /\ tableExists = FALSE
       /\ deck = w.deck
       /\ currentCard = w.card
       /\ tokensCell = w.cell
       /\ markerCol = w.marker
       /\ playerNames = w.names
       /\ playerTokens = w.ptok
       /\ hands = w.hand
       /\ hotspots = w.hot
       /\ scores = w.score
       /\ rejected = 0
       /\ moves = 0
       /\ last = [op |-> "", err |-> ""]
       /\ mech = "userlock"
       /\ inv = [i \in Procs |-> IdleInv(1)]
       /\ lockMeta = [id |-> 0, val |-> NoMeta]
       /\ userLock = [u \in Users |-> 0]
       /\ now = 0
       /\ startWorld = FreshSheet(<<>>)
       /\ deal = [playerCount |-> playerCount, pc |-> "start", player |-> 0]
       /\ revision = rev
       /\ count = NoCount
       /\ newSheet = 0
       /\ grouped = NoRuns
       /\ build = NoBuild

dealFrame == <<tableExists, rejected, moves, mech, inv, lockMeta, userLock,
               now, startWorld, revision, count, newSheet, grouped, build>>

\* dealTokens of v1.0: tokensPerPlayer, then one setValues.
DealTokens ==
  /\ revision = "v1.0"
  /\ deal.pc = "start"
  /\ LET w == dealTokens(World, deal.playerCount)
     IN /\ Install(w)
        /\ last' = [op |-> "dealTokens", err |-> w.err]
  /\ deal' = [deal EXCEPT !.pc = "done"]
  /\ UNCHANGED dealFrame

\* dealTokens of part_000: one setPlayerTokens.
DealTokensProperty ==
  /\ revision = "part_000"
  /\ deal.pc = "start"
  /\ LET w == dealTokensProperty(World, deal.playerCount)
     IN /\ Install(w)
        /\ last' = [op |-> "dealTokens", err |-> w.err]
  /\ deal' = [deal EXCEPT !.pc = "done"]
  /\ UNCHANGED dealFrame

\* One turn of range(playerCount - 1).forEach(addTokensToPlayer).
AddTokensToPlayer ==
  /\ revision \in LoopRevisions
  /\ deal.pc \in {"start", "loop"}
  /\ deal.player < deal.playerCount
  /\ LET tokens == tokensOfDeal(deal.playerCount)
         w == IF revision = "174-197"
              THEN addTokensToPlayer(World, deal.player, tokens)
              ELSE addTokensToPlayerOrZero(World, deal.player, tokens)
     IN /\ Install(w)
        /\ last' = [op |-> "dealTokens", err |-> w.err]
        /\ deal' = [deal EXCEPT !.pc = IF w.err = "" THEN "loop" ELSE "done",
                                !.player = @ + 1]
  /\ UNCHANGED dealFrame

\* forEach has gone through the players: dealTokens returns.
DealTokensReturn ==
  /\ revision \in LoopRevisions
  /\ deal.pc \in {"start", "loop"}
  /\ deal.player = deal.playerCount
  /\ deal' = [deal EXCEPT !.pc = "done"]
  /\ last' = [op |-> "dealTokens", err |-> ""]
  /\ UNCHANGED <<gameVars, dealFrame>>

DealNext ==
  \/ DealTokens
  \/ DealTokensProperty
  \/ AddTokensToPlayer
  \/ DealTokensReturn

DealSpec == DealInit /\ [][DealNext]_vars

(***************************************************************************)
(* One table of v1.0 played to its final score.  revealFinalScore is run   *)
(* by a click on the TOKENS image while it is the script assigned to it.   *)
(***************************************************************************)
RevealFinalScore ==
  /\ tableExists
  /\ hotspots["TOKENS"] = "revealFinalScore"
  /\ LET w == revealFinalScore(World)
     IN /\ Install(w)
        /\ last' = [op |-> "revealFinalScore", err |-> w.err]
  /\ UNCHANGED <<tableExists, rejected>>

ScoreNext ==
  \/ GameNext
  \/ RevealFinalScore /\ UNCHANGED <<count, moves, otherVars>>

SpecScore == Init /\ [][ScoreNext]_vars

(***************************************************************************)
(* One table played with the handlers of v1.0 or with those of             *)
(* src/unnamed/part_000, every player named.                               *)
(***************************************************************************)
PlayRevisions == {"v1.0", "part_000"}

\* The name lists with no prompt left blank.
NamedLists == {ns \in NameLists : \A i \in 1..Len(ns) : ns[i] # ""}

RevInit ==
  /\ tableExists = FALSE
  /\ deck = <<>>
  /\ currentCard = Null
  /\ tokensCell = BlankCell
  /\ markerCol = [i \in 1..MAX_PLAYER_COUNT |-> ""]
  /\ playerNames = <<>>
  /\ playerTokens = <<>>
  /\ hands = <<>>
  /\ hotspots = [l \in Locations |-> ""]
  /\ scores = <<>>
  /\ rejected = 0
  /\ moves = 0
  /\ last = [op |-> "", err |-> ""]
  /\ mech = "userlock"
  /\ inv = [i \in Procs |-> IdleInv(1)]
  /\ lockMeta = [id |-> 0, val |-> NoMeta]
  /\ userLock = [u \in Users |-> 0]
  /\ now = 0
  /\ startWorld = FreshSheet(<<>>)
  /\ deal = NoDeal
  /\ count = NoCount
  /\ newSheet = 0
  /\ grouped = NoRuns
  /\ build = NoBuild
  /\ revision \in PlayRevisions

\* The menu item "New Table" of part_000 on a document with no table.  When
\* the body throws, the new sheet is deleted; the document properties "deck"
\* and "playerTokens" keep what the body wrote.
NewTablePart000From(lists) ==
  /\ ~tableExists
  /\ \E typedNames \in lists :
     \E randomize \in BOOLEAN :
     \E players \in (IF randomize THEN Shuffles(typedNames)
                     ELSE {typedNames}) :
     \E fresh \in NewDecks :
     \E typed \in {NoPick, NaN} \cup (0..MaxNames) :
     \E rnd \in (IF typed = NoPick THEN 0..(Len(players) - 1) ELSE {0}) :
       LET w == newTablePart000(World, players, fresh, typed, rnd)
       IN IF w.err = ""
          THEN /\ Install(w)
               /\ tableExists' = TRUE
               /\ rejected' = 0
               /\ moves' = 0
               /\ last' = [op |-> "newTable", err |-> ""]
          ELSE /\ rejected < MaxRejected
               /\ rejected' = rejected + 1
               /\ deck' = w.deck
               /\ playerTokens' = w.ptok
               /\ last' = [op |-> "newTable", err |-> w.err]
               /\ UNCHANGED <<tableExists, currentCard, tokensCell,
                              markerCol, playerNames, hands, hotspots, scores, moves>>

\* The names typed in are all non-blank.
FirstTablePart000 == NewTablePart000From(NamedLists)

RevealTopCardPart000 ==
  /\ tableExists
  /\ \E r \in DrawIndexes(deck) :
       LET w == revealTopCardPart000(World, r)
       IN /\ Install(w)
          /\ last' = [op |-> "revealTopCard", err |-> w.err]
  /\ UNCHANGED <<tableExists, rejected>>

TakeCardPart000 ==
  /\ tableExists
  /\ LET w == takeCardPart000(World)
     IN /\ Install(w)
        /\ last' = [op |-> "takeCard", err |-> w.err]
  /\ UNCHANGED <<tableExists, rejected>>

NoThanksPart000 ==
  /\ tableExists
  /\ LET w == noThanksPart000(World)
     IN /\ Install(w)
        /\ last' = [op |-> "noThanks", err |-> w.err]
  /\ UNCHANGED <<tableExists, rejected>>

\* Every name cell of the table being created holds a name.
AllNamed == \A i \in 1..Len(playerNames) : playerNames[i] # ""

RevNext ==
  \/ revision = "v1.0" /\ FirstTable /\ AllNamed' /\ UNCHANGED lockVars
  \/ revision = "v1.0" /\ RevealTopCard /\ UNCHANGED <<moves, lockVars>>
  \/ revision = "v1.0" /\ TakeCard /\ UNCHANGED <<moves, lockVars>>
  \/ revision = "v1.0" /\ NoThanks /\ UNCHANGED <<moves, lockVars>>
  \/ revision = "part_000" /\ FirstTablePart000 /\ UNCHANGED lockVars
  \/ revision = "part_000" /\ RevealTopCardPart000
       /\ UNCHANGED <<moves, lockVars>>
  \/ revision = "part_000" /\ TakeCardPart000
       /\ UNCHANGED <<moves, lockVars>>
  \/ revision = "part_000" /\ NoThanksPart000
       /\ UNCHANGED <<moves, lockVars>>

SpecRevisions == RevInit /\ [][RevNext]_vars

\* One game of v1.0 with AUTO_REVEAL_NEXT_CARD switched on.
AutoInit ==
  /\ tableExists = FALSE
  /\ deck = <<>>
  /\ currentCard = Null
  /\ tokensCell = BlankCell
  /\ markerCol = [i \in 1..MAX_PLAYER_COUNT |-> ""]
  /\ playerNames = <<>>
  /\ playerTokens = <<>>
  /\ hands = <<>>
  /\ hotspots = [l \in Locations |-> ""]
  /\ scores = <<>>
  /\ rejected = 0
  /\ moves = 0
  /\ last = [op |-> "", err |-> ""]
  /\ mech = "userlock"
  /\ inv = [i \in Procs |-> IdleInv(1)]
  /\ lockMeta = [id |-> 0, val |-> NoMeta]
  /\ userLock = [u \in Users |-> 0]
  /\ now = 0
  /\ startWorld = FreshSheet(<<>>)
  /\ deal = NoDeal
  /\ count = NoCount
  /\ newSheet = 0
  /\ grouped = NoRuns
  /\ build = NoBuild
  /\ revision = AutoRevealBuild

SpecAuto == AutoInit /\ [][Next]_vars

\* part_000 with whatever is typed at the name prompts, blank names too.
NamesInit == RevInit /\ revision = "part_000"

NamesNext ==
  \/ NewTablePart000From(NameLists) /\ UNCHANGED lockVars
  \/ RevealTopCardPart000 /\ UNCHANGED <<moves, lockVars>>
  \/ TakeCardPart000 /\ UNCHANGED <<moves, lockVars>>
  \/ NoThanksPart000 /\ UNCHANGED <<moves, lockVars>>

SpecNames == NamesInit /\ [][NamesNext]_vars


(***************************************************************************)
(* newDeck followed draw by draw, in each of its revisions: v1.0 (lines    *)
(* 2435-2451, with REMOVE_TENS on or off), lines 1523-1533 and lines       *)
(* 628-638.  The revisions differ in the argument drawCard passes to       *)
(* randInt(max), whose outcome is any integer of 0..max.                   *)
(***************************************************************************)
DeckRevisions == {"v1.0", "1523-1533", "615-638"}

DeckMaxCard == MIN_CARD + DeckRange - 1

\* The outcomes of randInt in drawCard, 1-based: randInt(deck.length) in
\* lines 615-626, randInt(deck.length - 1) in the other revisions.
RandIndexes(rev, d) ==
  IF rev = "615-638" THEN 1..(Len(d) + 1) ELSE DrawIndexes(d)

DeckInit ==
  \E rev \in DeckRevisions :
    \E removeTens \in (IF rev = "v1.0" THEN {REMOVE_TENS, ~REMOVE_TENS}
                                       ELSE {FALSE}) :
      LET w == FreshSheet(<<>>)
      IN /\ tableExists = FALSE
         /\ deck = w.deck
         /\ currentCard = w.card
         /\ tokensCell = w.cell
         /\ markerCol = w.marker
         /\ playerNames = w.names
         /\ playerTokens = w.ptok
         /\ hands = w.hand
         /\ hotspots = w.hot
         /\ scores = w.score
         /\ rejected = 0
         /\ moves = 0
         /\ last = [op |-> "", err |-> ""]
         /\ mech = "userlock"
         /\ inv = [i \in Procs |-> IdleInv(1)]
         /\ lockMeta = [id |-> 0, val |-> NoMeta]
         /\ userLock = [u \in Users |-> 0]
         /\ now = 0
         /\ startWorld = FreshSheet(<<>>)
         /\ deal = NoDeal
         /\ revision = rev
         /\ count = NoCount
         /\ newSheet = 0
         /\ grouped = NoRuns
         /\ build = [NoBuild EXCEPT !.pc = "start", !.removeTens = removeTens]

deckFrame == <<gameVars, rejected, moves, last, mech, inv, lockMeta, userLock,
               now, startWorld, deal, revision, count, grouped, newSheet>>

\* The statements of newDeck before its loop.
NewDeckRange ==
  /\ build.pc = "start"
  /\ LET full == xrange(MIN_CARD, DeckMaxCard + 1)
         d == IF build.removeTens THEN FilterTens(full) ELSE full
     IN build' = [build EXCEPT !.pc = "loop", !.deck = d,
                               !.cardsRemoved = Len(full) - Len(d)]
  /\ UNCHANGED deckFrame

\* One turn of the loop: deck = drawCard(deck).remainingDeck.
NewDeckDraw ==
  /\ build.pc = "loop"
  /\ build.cardsRemoved < DeckRemoved
  /\ \E randIndex \in RandIndexes(revision, build.deck) :
       LET drawn == drawCard(build.deck, randIndex)
       IN build' = [build EXCEPT !.deck = drawn.remainingDeck,
                                 !.cardsRemoved = @ + 1,
                                 !.from = build.deck,
                                 !.card = drawn.card]
  /\ UNCHANGED deckFrame

\* The loop is over: newDeck returns the deck.
NewDeckReturn ==
  /\ build.pc = "loop"
  /\ build.cardsRemoved >= DeckRemoved
  /\ build' = [build EXCEPT !.pc = "done"]
  /\ UNCHANGED deckFrame

DeckNext ==
  \/ NewDeckRange
  \/ NewDeckDraw
  \/ NewDeckReturn

DeckSpec == DeckInit /\ [][DeckNext]_vars

(***************************************************************************)
(* groupConsecutiveRuns on its own (v1.0 lines 2708-2733; the function of  *)
(* src/unnamed/part_000 lines 480-505 is the same but for the comparator   *)
(* written in line), applied to any sequence of unique card numbers.       *)
(***************************************************************************)
RunValues == MIN_CARD..(MIN_CARD + RunRange - 1)

\* The arrays of unique numbers, in any order.
RunInputs ==
  {s \in UNION {[1..n -> RunValues] : n \in 0..RunRange} :
     \A i, j \in 1..Len(s) : i # j => s[i] # s[j]}

RunInit ==
  \E numbers \in RunInputs :
    LET w == FreshSheet(<<>>)
    IN /\ tableExists = FALSE
       /\ deck = w.deck
       /\ currentCard = w.card
       /\ tokensCell = w.cell
       /\ markerCol = w.marker
       /\ playerNames = w.names
       /\ playerTokens = w.ptok
       /\ hands = w.hand
       /\ hotspots = w.hot
       /\ scores = w.score
       /\ rejected = 0
       /\ moves = 0
       /\ last = [op |-> "", err |-> ""]
       /\ mech = "userlock"
       /\ inv = [i \in Procs |-> IdleInv(1)]
       /\ lockMeta = [id |-> 0, val |-> NoMeta]
       /\ userLock = [u \in Users |-> 0]
       /\ now = 0
       /\ startWorld = FreshSheet(<<>>)
       /\ deal = NoDeal
       /\ revision = "v1.0"
       /\ count = NoCount
       /\ newSheet = 0
       /\ grouped = [NoRuns EXCEPT !.pc = "start", !.numbers = numbers]
       /\ build = NoBuild

\* The runs the generator yields, in the order it yields them.
GroupConsecutiveRuns ==
  /\ grouped.pc = "start"
  /\ grouped' = [grouped EXCEPT !.pc = "done",
                                !.out = groupConsecutiveRuns(grouped.numbers)]
  /\ UNCHANGED <<gameVars, rejected, moves, last, mech, inv, lockMeta,
                 userLock, now, startWorld, deal, revision, count, build,
                 newSheet>>

RunNext == GroupConsecutiveRuns

RunSpec == RunInit /\ [][RunNext]_vars

(***************************************************************************)
(* The sheet of lines 1-527 with the names of the players typed in, its    *)
(* menu item "New Game" and its three hotspots.                            *)
(***************************************************************************)
NewGameInit ==
  \E names \in NamedLists :
    /\ tableExists = TRUE
    /\ deck = <<>>
    /\ currentCard = Null
    /\ tokensCell = BlankCell
    /\ markerCol = [i \in 1..MAX_PLAYER_COUNT |-> ""]
    /\ playerNames = names
    /\ playerTokens = <<>>
    /\ hands = [i \in 1..Len(names) |-> <<>>]
    /\ hotspots = [l \in Locations |-> ""]
    /\ scores = <<>>
    /\ rejected = 0
    /\ moves = 0
    /\ last = [op |-> "", err |-> ""]
    /\ mech = "metadata"
    /\ inv = [i \in Procs |-> IdleInv(1)]
    /\ lockMeta = [id |-> 0, val |-> NoMeta]
    /\ userLock = [u \in Users |-> 0]
    /\ now = 0
    /\ startWorld = FreshSheet(<<>>)
    /\ deal = NoDeal
    /\ count = NoCount
    /\ newSheet = 0
    /\ grouped = NoRuns
    /\ build = NoBuild
    /\ revision = "1-527"

newGameFrame == <<tableExists, rejected, moves, lockVars>>

\* The menu item "New Game".
NewGameMetadata ==
  /\ \E rnd \in 0..(getPlayerCount(World) - 1) :
     \E fresh \in NewDecks :
       LET w == newGameMetadata(World, rnd, fresh)
       IN /\ Install(w)
          /\ last' = [op |-> "newGame", err |-> w.err]
  /\ UNCHANGED newGameFrame

RevealTopCardMetadata ==
  /\ \E r \in DrawIndexes(deck) :
       LET w == revealTopCardMetadata(World, r)
       IN /\ Install(w)
          /\ last' = [op |-> "revealTopCard", err |-> w.err]
  /\ UNCHANGED newGameFrame

TakeCardMetadata ==
  /\ LET w == takeCardMetadata(World)
     IN /\ Install(w)
        /\ last' = [op |-> "takeCard", err |-> w.err]
  /\ UNCHANGED newGameFrame

NoThanksMetadata ==
  /\ LET w == noThanksMetadata(World)
     IN /\ Install(w)
        /\ last' = [op |-> "noThanks", err |-> w.err]
  /\ UNCHANGED newGameFrame

NewGameNext ==
  \/ NewGameMetadata
  \/ RevealTopCardMetadata
  \/ TakeCardMetadata
  \/ NoThanksMetadata

SpecNewGame == NewGameInit /\ [][NewGameNext]_vars

(***************************************************************************)
(* New Table of src/unnamed/part_000 next to another invocation.  newTable *)
(* inserts the sheet "Creating new table..." and only then enters          *)
(* singleEntry, whose waitLock gives up after MUTEX_LOCKOUT_PERIOD_MS; the *)
(* try/catch that deletes the sheet is inside the guarded body.  An        *)
(* invocation at "new" is a New Table about to start, one at "idle" is a   *)
(* click on a hotspot about to enter singleEntry.                          *)
(***************************************************************************)
\* The table the invocations find: three players, a card revealed.
PlayedTable ==
  LET fresh == CHOOSE d \in NewDecks : TRUE
      w0 == newTablePart000(FreshSheet(<<>>), <<"P", "P", "P">>, fresh,
                            NoPick, 0)
  IN revealTopCardPart000(w0, 1)

NewTableLockInit ==
  /\ mech = "userlock"
  /\ startWorld = PlayedTable
  /\ deal = NoDeal
  /\ count = NoCount
  /\ grouped = NoRuns
  /\ build = NoBuild
  /\ newSheet = 0
  /\ revision = "part_000"
  /\ tableExists = TRUE
  /\ deck = startWorld.deck
  /\ currentCard = startWorld.card
  /\ tokensCell = startWorld.cell
  /\ markerCol = startWorld.marker
  /\ playerNames = startWorld.names
  /\ playerTokens = startWorld.ptok
  /\ hands = startWorld.hand
  /\ hotspots = startWorld.hot
  /\ scores = startWorld.score
  /\ rejected = 0
  /\ moves = 0
  /\ last = [op |-> "", err |-> ""]
  /\ inv \in {[i \in Procs |-> [IdleInv(us[i]) EXCEPT !.pc = kinds[i]]] :
                us \in UserAssignments(mech),
                kinds \in [Procs -> {"new", "idle"}]}
  /\ lockMeta = [id |-> 0, val |-> NoMeta]
  /\ userLock = [u \in Users |-> 0]
  /\ now = 0

sheetFrame == <<rejected, moves, mech, startWorld, deal, revision, count,
                grouped, build, lockMeta, now>>

\* file.insertSheet("Creating new table..."): it throws when the file has a
\* sheet of that name, and newTable ends before singleEntry.
InsertSheet ==
  \E i \in Procs :
    /\ inv[i].pc = "new"
    /\ IF newSheet # 0
       THEN /\ inv' = [inv EXCEPT ![i] = Left([@ EXCEPT !.thrown = TRUE],
                                              "threw")]
            /\ last' = [op |-> "newTable", err |-> "sheet already exists"]
            /\ UNCHANGED newSheet
       ELSE /\ newSheet' = i
            /\ inv' = [inv EXCEPT ![i] = [@ EXCEPT !.pc = "idle"]]
            /\ UNCHANGED last
    /\ UNCHANGED <<gameVars, sheetFrame, userLock>>

\* The body newTable passes to singleEntry, with its try/catch: the new
\* sheet becomes the table, or it is deleted and the error thrown on.  The
\* document properties keep what the body wrote.
NewTableBody ==
  \E i \in Procs :
    /\ inv[i].pc = "b1"
    /\ newSheet = i
    /\ \E players \in {getPlayersFromPreviousTable(World)} \cup NamedLists :
       \E fresh \in NewDecks :
       \E typed \in {NoPick, NaN} :
         LET w == newTablePart000(World, players, fresh, typed, 0)
         IN /\ IF w.err = ""
               THEN Install(w)
               ELSE /\ deck' = w.deck
                    /\ playerTokens' = w.ptok
                    /\ UNCHANGED <<currentCard, tokensCell, markerCol,
                                   playerNames, hands, hotspots, scores>>
            /\ last' = [op |-> "newTable", err |-> w.err]
            /\ inv' = [inv EXCEPT ![i] = [@ EXCEPT !.pc = AfterBody(w.err # ""),
                                                   !.thrown = w.err # "",
                                                   !.ran = TRUE]]
    /\ newSheet' = 0
    /\ UNCHANGED <<tableExists, sheetFrame, userLock>>

\* The body a hotspot's handler passes to singleEntry.
HandlerBody ==
  \E i \in Procs :
    /\ inv[i].pc = "b1"
    /\ newSheet # i
    /\ \E w \in {revealTopCardPart000(World, r) : r \in DrawIndexes(deck)}
                \cup {takeCardPart000(World), noThanksPart000(World)} :
         /\ Install(w)
         /\ last' = [op |-> "handler", err |-> w.err]
         /\ inv' = [inv EXCEPT ![i] = [@ EXCEPT !.pc = AfterBody(w.err # ""),
                                                !.thrown = w.err # "",
                                                !.ran = TRUE]]
    /\ UNCHANGED <<tableExists, sheetFrame, userLock, newSheet>>

NewTableLockNext ==
  \/ InsertSheet
  \/ EnterUserLock
  \/ Acquire
  \/ Timeout
  \/ Tick
  \/ NewTableBody
  \/ HandlerBody
  \/ Release

NewTableLockSpec == NewTableLockInit /\ [][NewTableLockNext]_vars

(***************************************************************************)
(* The end of a game of v1.0 with New Table at hand: the table starts with *)
(* its last card revealed; the card is taken, the final score is shown,    *)
(* and New Table is chosen at any time, accepted or rejected.  Each table  *)
(* is followed for MaxMoves reveals, takes and declines.                   *)
(***************************************************************************)
\* The table after every card but the last has been revealed and taken and
\* the last one has been revealed.
RECURSIVE PlayToLastCard(_)
PlayToLastCard(w) ==
  LET w1 == revealTopCardImpl(w, 1)
  IN IF Len(getDeck(w1)) = 0 THEN w1 ELSE PlayToLastCard(takeCard(w1, 1))

LastCardTables ==
  {PlayToLastCard(newTable(FreshSheet(<<>>), players, fresh, NoPick, 0, 1)) :
     players \in NameLists, fresh \in NewDecks}

LastCardInit ==
  /\ revision = "v1.0"
  /\ \E w \in LastCardTables :
       /\ deck = w.deck
       /\ currentCard = w.card
       /\ tokensCell = w.cell
       /\ markerCol = w.marker
       /\ playerNames = w.names
       /\ playerTokens = w.ptok
       /\ hands = w.hand
       /\ hotspots = w.hot
       /\ scores = w.score
  /\ tableExists = TRUE
  /\ rejected = 0
  /\ moves = 0
  /\ last = [op |-> "", err |-> ""]
  /\ mech = "userlock"
  /\ inv = [i \in Procs |-> IdleInv(1)]
  /\ lockMeta = [id |-> 0, val |-> NoMeta]
  /\ userLock = [u \in Users |-> 0]
  /\ now = 0
  /\ startWorld = FreshSheet(<<>>)
  /\ deal = NoDeal
  /\ count = NoCount
  /\ newSheet = 0
  /\ grouped = NoRuns
  /\ build = NoBuild

LastCardNext ==
  \/ NextTable /\ UNCHANGED lockVars
  \/ moves < MaxMoves /\ moves' = moves + 1 /\ RevealTopCard
       /\ UNCHANGED lockVars
  \/ moves < MaxMoves /\ moves' = moves + 1 /\ TakeCard
       /\ UNCHANGED lockVars
  \/ moves < MaxMoves /\ moves' = moves + 1 /\ NoThanks
       /\ UNCHANGED lockVars
  \/ RevealFinalScore /\ UNCHANGED <<moves, lockVars>>

SpecLastCard == LastCardInit /\ [][LastCardNext]_vars

(***************************************************************************)
(* revealTopCard alone, in the revisions that differ in how they read the  *)
(* deck, from any stored deck and any revealed card.  setDeck removes the  *)
(* "deck" key when the deck is empty, so an empty deck reads back as null. *)
(***************************************************************************)
RevealRevisions == {"v1.0", "part_000", "1-527", "843-1267"}

\* getDeck() == null: the "deck" key holds no value.
deckIsNull(w) == getDeck(w) = <<>>

\* revealTopCard of lines 875-895: the two refusals are message boxes, and
\* deck.length is read without a null check.  A deck that is not null has
\* cards, so the "Deck is empty!" box is never shown.
revealTopCardMsgBox(w, r) ==
  IF getCurrentCard(w) # Null
  THEN [w EXCEPT !.err = "You can't reveal the next card"]
  ELSE IF deckIsNull(w) THEN Throw(w, "TypeError")
  ELSE IF Len(getDeck(w)) = 0 THEN [w EXCEPT !.err = "Deck is empty!"]
  ELSE LET drawn == drawCard(getDeck(w), r)
           w1 == setCurrentCard(w, drawn.card)
           w2 == setDeck(w1, drawn.remainingDeck)
       IN setCurrentTokens(w2, 0)

revealTopCardOf(rev, w, r) ==
  CASE rev = "v1.0" -> revealTopCardImpl(w, r)
    [] rev = "part_000" -> revealTopCardPart000(w, r)
    [] rev = "1-527" -> revealTopCardMetadata(w, r)
    [] rev = "843-1267" -> revealTopCardMsgBox(w, r)

\* The decks that can be stored: any cards of the range, in any order.
StoredDecks ==
  UNION {{d \in [1..k -> MIN_CARD..MAX_CARD] :
            \A i, j \in 1..k : i # j => d[i] # d[j]}
         : k \in 0..(MAX_CARD - MIN_CARD + 1)}

\* The hotspot scripts that go with a deck and a revealed card (the
\* revision of lines 843-1267 has no hotspots).
HotspotsFor(rev, d, c) ==
  IF rev = "843-1267" THEN [l \in Locations |-> ""]
  ELSE [l \in Locations |->
          CASE l = "DECK" -> IF c = Null /\ d # <<>> THEN "revealTopCard"
                             ELSE ""
            [] l = "CARD" -> IF c # Null THEN "takeCard" ELSE ""
            [] l = "TOKENS" -> IF c # Null THEN "noThanks" ELSE ""]

RevealInit ==
  /\ revision \in RevealRevisions
  /\ deck \in StoredDecks
  /\ currentCard \in {Null} \cup
       {c \in MIN_CARD..MAX_CARD : \A i \in 1..Len(deck) : deck[i] # c}
  /\ hotspots = HotspotsFor(revision, deck, currentCard)
  /\ tableExists = TRUE
  /\ tokensCell = BlankCell
  /\ markerCol = [i \in 1..MAX_PLAYER_COUNT |-> ""]
  /\ playerNames = <<"P", "P", "P">>
  /\ playerTokens = <<0, 0, 0>>
  /\ hands = <<<<>>, <<>>, <<>>>>
  /\ scores = <<>>
  /\ rejected = 0
  /\ moves = 0
  /\ last = [op |-> "", err |-> ""]
  /\ mech = "userlock"
  /\ inv = [i \in Procs |-> IdleInv(1)]
  /\ lockMeta = [id |-> 0, val |-> NoMeta]
  /\ userLock = [u \in Users |-> 0]
  /\ now = 0
  /\ startWorld = FreshSheet(<<>>)
  /\ deal = NoDeal
  /\ count = NoCount
  /\ newSheet = 0
  /\ grouped = NoRuns
  /\ build = NoBuild

RevealTopCardOf ==
  /\ \E r \in DrawIndexes(deck) :
       LET w == revealTopCardOf(revision, World, r)
       IN /\ Install(w)
          /\ last' = [op |-> "revealTopCard", err |-> w.err]
  /\ UNCHANGED <<tableExists, rejected, moves, lockVars>>

RevealSpec == RevealInit /\ [][RevealTopCardOf]_vars

(***************************************************************************)
(* The metadata lock with the document opened meanwhile.                   *)
(***************************************************************************)
\* onOpen, run for whoever opens the document: it removes the "lock"
\* metadata, then builds the menu (which is no state of the game).
OnOpen ==
  /\ mech = "metadata"
  /\ lockMeta' = resetSheetMetadataObject(lockMeta)
  /\ UNCHANGED <<gameVars, lockFrame, inv, userLock, now>>

OpenInit == LockInit /\ mech = "metadata"

OpenNext ==
  \/ OnOpen
  \/ EnterMetadata
  \/ SetLockValue
  \/ Tick
  \/ ReadCard
  \/ ReadActivePlayer
  \/ ReadPlayerTokens
  \/ WritePlayerTokens
  \/ ReadPool
  \/ WritePool
  \/ WriteActivePlayer
  \/ Release

OpenSpec == OpenInit /\ [][OpenNext]_vars

(***************************************************************************)
(* shuffle on its own: an array of names, every outcome of the draws.      *)
(***************************************************************************)
ShuffleRevisions == {"2112-2121", "v1.0"}

ShuffleNames == {"A", "B", "C"}

ShuffleInputs == UNION {[1..k -> ShuffleNames] : k \in 0..MaxShuffle}

\* Outcomes of the draws of shuffle of lines 2112-2121: rnd[i] = randInt(i - 1).
ShuffleRandomsFromLength(n) ==
  {f \in [1..n -> 0..(n - 1)] : \A i \in 1..n : f[i] <= i - 1}

\* What the revision's shuffle can return for the array.
ShufflesOf(rev, array) ==
  IF rev = "2112-2121"
  THEN {shuffleFromLength(array, f) :
          f \in ShuffleRandomsFromLength(Len(array))}
  ELSE Shuffles(array)

\* The array is startWorld.names; playerNames is what shuffle returned.
ShuffleInit ==
  \E array \in ShuffleInputs :
    /\ tableExists = FALSE
    /\ deck = <<>>
    /\ currentCard = Null
    /\ tokensCell = BlankCell
    /\ markerCol = [i \in 1..MAX_PLAYER_COUNT |-> ""]
    /\ playerNames = <<>>
    /\ playerTokens = <<>>
    /\ hands = <<>>
    /\ hotspots = [l \in Locations |-> ""]
    /\ scores = <<>>
    /\ rejected = 0
    /\ moves = 0
    /\ last = [op |-> "", err |-> ""]
    /\ mech = "userlock"
    /\ inv = [i \in Procs |-> IdleInv(1)]
    /\ lockMeta = [id |-> 0, val |-> NoMeta]
    /\ userLock = [u \in Users |-> 0]
    /\ now = 0
    /\ startWorld = [FreshSheet(<<>>) EXCEPT !.names = array]
    /\ deal = NoDeal
    /\ count = NoCount
    /\ newSheet = 0
    /\ grouped = NoRuns
    /\ build = NoBuild
    /\ revision \in ShuffleRevisions

Shuffle ==
  /\ last.op = ""
  /\ \E shuffled \in ShufflesOf(revision, startWorld.names) :
       playerNames' = shuffled
  /\ last' = [op |-> "shuffle", err |-> ""]
  /\ UNCHANGED <<tableExists, deck, currentCard, tokensCell, markerCol,
                 playerTokens, hands, hotspots, scores, rejected, moves,
                 lockVars>>

ShuffleSpec == ShuffleInit /\ [][Shuffle]_vars

(***************************************************************************)
(* Properties.                                                             *)
(***************************************************************************)
RECURSIVE SumSeq(_)
SumSeq(s) == IF s = <<>> THEN 0 ELSE Head(s) + SumSeq(Tail(s))

HandSizes == [i \in 1..Len(hands) |-> Len(hands[i])]

RECURSIVE Flatten(_)
Flatten(ss) == IF ss = <<>> THEN <<>> ELSE Head(ss) \o Flatten(Tail(ss))

\* Every card the table shows or the deck stores, one entry per place.
CardsInPlay ==
  deck \o (IF currentCard # Null THEN <<currentCard>> ELSE <<>>)
       \o Flatten([i \in 1..Len(hands) |-> CellValues(hands[i])])

ActiveTokens == playerTokens[getActivePlayer(World) + 1]

\* The number of players newGame dealt tokens to (players.length).
DealtPlayers == Len(playerTokens)

\* C1: on a table, the players' tokens plus the pool (a message in the box
\* counts as no tokens) are the tokens dealt: players x tokens per player.
C1_TokenConservation ==
  tableExists =>
    SumSeq(playerTokens) + Num(getTokensInPool(World))
      = DealtPlayers * tokensPerPlayer(DealtPlayers)

\* C1 witness: a player has taken a pool and tokens lie in the pool again.
C1_Witness ==
  /\ tableExists
  /\ \E i \in 1..Len(playerTokens) :
       playerTokens[i] > tokensPerPlayer(DealtPlayers)
  /\ Num(getTokensInPool(World)) > 0

\* C2: on a table, deck size + revealed card (0 or 1) + all hand sizes +
\* the cards removed at setup equals the number of cards MIN_CARD..MAX_CARD.
C2_CardCount ==
  tableExists =>
    Len(deck) + (IF currentCard # Null THEN 1 ELSE 0) + SumSeq(HandSizes)
      + SETUP_CARDS_REMOVED = MAX_CARD - MIN_CARD + 1

\* C2 witness: a card is revealed while a hand already holds a card.
C2_Witness ==
  /\ tableExists
  /\ currentCard # Null
  /\ \E i \in 1..Len(hands) : Len(hands[i]) > 0

\* C3: no card value is in two places among the deck, the revealed card
\* and the hands, also after a rejected new-table attempt.
C3_CardUniqueness ==
  tableExists =>
    Cardinality({CardsInPlay[k] : k \in 1..Len(CardsInPlay)})
      = Len(CardsInPlay)

\* C4: no two invocations are inside the body singleEntry guards.
C4_MutualExclusion ==
  \A i, j \in Procs :
    i # j => ~(inv[i].pc \in BodyPcs /\ inv[j].pc \in BodyPcs)

\* C5: once every invocation has returned, the persisted state is that of
\* running the admitted noThanks bodies one after the other.
C5_SerializedPersistence ==
  (\A i \in Procs : inv[i].pc \in {"done", "threw", "busy", "crashed"}) =>
    [World EXCEPT !.err = ""]
      = Serial(mech, startWorld, Cardinality({i \in Procs : inv[i].ran}))

\* The next invocation (of the same user, for the user lock) would be
\* admitted at once.
LockFreeFor(u) ==
  IF mech = "metadata"
  THEN ~LockIsActive(getSheetMetadataObject(lockMeta).val, now)
  ELSE userLock[u] = 0

\* C6: a step by which an admitted invocation leaves singleEntry, its body
\* having returned or thrown, leaves the lock released.
C6_GuaranteedRelease ==
  [][\A i \in Procs :
       (inv[i].pc \in BodyPcs \cup {"fin"} /\ inv'[i].pc \in {"done", "threw"})
         => LockFreeFor(inv[i].user)']_vars

\* C6 witness: an invocation whose body threw has left and the lock is free.
C6_Witness ==
  \E i \in Procs :
    /\ inv[i].pc = "threw"
    /\ inv[i].thrown
    /\ LockFreeFor(inv[i].user)

\* C7: an invocation waits for the lock no longer than the lockout period,
\* and one that ends with the lock-busy error has run nothing of its body
\* and has not changed the lock.
C7_BoundedWait ==
  \A i \in Procs :
    /\ inv[i].pc = "wait" => now - inv[i].began <= MUTEX_LOCKOUT_PERIOD_MS
    /\ inv[i].pc = "busy" => ~inv[i].ran /\ ~inv[i].changed

\* C7 witness: a waitLock has given up at the end of the lockout period
\* while another invocation of the same user is inside the body.
C7_Witness ==
  \E i, j \in Procs :
    /\ mech = "userlock"
    /\ inv[i].pc = "busy"
    /\ now - inv[i].began = MUTEX_LOCKOUT_PERIOD_MS
    /\ inv[j].pc \in BodyPcs

\* C8: noThanks with a card revealed and the active player at 0 tokens
\* raises an error and changes nothing on the table.
C8_NoTokensRejected ==
  [][(/\ NoThanks
      /\ currentCard # Null
      /\ getActivePlayer(World) # Null
      /\ ActiveTokens = 0)
       => (last'.err # "" /\ UNCHANGED gameVars)]_vars

\* C8 witness: such a noThanks has just been rejected.
C8_Witness ==
  /\ last = [op |-> "noThanks", err |-> "doesn't have any tokens left!"]
  /\ currentCard # Null
  /\ ActiveTokens = 0

\* C9: revealTopCard with a card revealed raises an error and changes
\* nothing: deck, card, pool and the hotspot bindings stay.
C9_RevealRejected ==
  [][(RevealTopCard /\ currentCard # Null)
       => (last'.err # "" /\ UNCHANGED gameVars)]_vars

\* C9 witness: such a revealTopCard has just been rejected, cards remaining.
C9_Witness ==
  /\ last = [op |-> "revealTopCard", err |-> "card is still out"]
  /\ currentCard # Null
  /\ Len(deck) > 0

\* C10: takeCard and noThanks with no card revealed raise an error and
\* change nothing.
C10_NoCardRejected ==
  [][((TakeCard \/ NoThanks) /\ currentCard = Null)
       => (last'.err # "" /\ UNCHANGED gameVars)]_vars

\* C10 witness: a noThanks was rejected for want of a revealed card, in the
\* middle of a game.
C10_Witness ==
  /\ last = [op |-> "noThanks", err |-> "No card revealed yet!"]
  /\ currentCard = Null
  /\ \E i \in 1..Len(hands) : Len(hands[i]) > 0

\* C11: a new table rejected for an unsupported player count or an invalid
\* starting-player entry leaves the persisted state of the live game (deck,
\* revealed card, pool, tokens, active player, Table sheet) as it was.
C11_AllOrNothing ==
  [][(/\ NextTable
      /\ last'.err \in {"Unsupported player count",
                        "Invalid start player value"})
       => UNCHANGED gameVars]_vars

\* C12: the player count of every live game, as getPlayerCount reads it from
\* the name cells of the Table sheet, lies between 3 and 7.
C12_PlayerCountBound ==
  tableExists =>
    getPlayerCount(World) \in MIN_PLAYERS..MAX_PLAYER_COUNT

\* The deal the rules prescribe.
TokensByRule(n) == IF n <= 5 THEN 11 ELSE IF n = 6 THEN 9 ELSE 7

\* C13: once dealTokens has returned for n players, 3 <= n <= 7, each of the
\* n players holds 11 tokens (n = 3, 4, 5), 9 (n = 6) or 7 (n = 7), and the
\* pool holds none.
C13_TokenDeal ==
  (/\ deal.pc = "done"
   /\ last.err = ""
   /\ deal.playerCount \in MIN_PLAYERS..MAX_PLAYER_COUNT)
    => /\ playerTokens =
            [i \in 1..deal.playerCount |-> TokensByRule(deal.playerCount)]
       /\ Num(getTokensInPool(World)) = 0

\* C14: dealTokens called with a player count below 3 or above 7 ends with
\* the unsupported-player-count error and has dealt no tokens.
C14_UnsupportedCount ==
  (/\ deal.pc = "done"
   /\ deal.playerCount \notin MIN_PLAYERS..MAX_PLAYER_COUNT)
    => /\ last.err = "Unsupported player count"
       /\ playerTokens = <<>>

\* C15: on a live table exactly one marker cell holds the active-player
\* marker, and its row is the index of one of the dealt players.
C15_ValidActivePlayer ==
  tableExists =>
    /\ Cardinality({i \in 1..MAX_PLAYER_COUNT :
                      markerCol[i] = ACTIVE_PLAYER_MARKER}) = 1
    /\ getActivePlayer(World) \in 0..(DealtPlayers - 1)

\* C15 witness: the turn has gone around the table and is back at row 0.
C15_Witness ==
  /\ tableExists
  /\ last = [op |-> "noThanks", err |-> ""]
  /\ getActivePlayer(World) = 0
  /\ Num(getTokensInPool(World)) >= DealtPlayers

\* Tokens in the pool after the step being taken.
PoolAfter == Num(getTokensInPool([World EXCEPT !.cell = tokensCell']))

\* C16: a successful noThanks by the active player p on a table dealt to n
\* players takes one token from p, adds one to the pool, passes the turn to
\* (p + 1) mod n, and leaves the deck, the revealed card, the hands and the
\* tokens of the others as they were.
C16_DeclineEffect ==
  [][(NoThanks /\ last'.err = "")
       => LET p == getActivePlayer(World)
              n == DealtPlayers
          IN /\ playerTokens' = [playerTokens EXCEPT ![p + 1] = @ - 1]
             /\ PoolAfter = Num(getTokensInPool(World)) + 1
             /\ markerCol' = setActivePlayer(World, (p + 1) % n).marker
             /\ UNCHANGED <<deck, currentCard, hands>>]_vars

\* C17: a successful takeCard, of v1.0 or of part_000, leaves the marker of
\* the active player where it was; the marker moves only in a noThanks or a
\* new table.
C17_TakeKeepsTurn ==
  [][/\ ((TakeCard \/ TakeCardPart000) /\ last'.err = "")
          => UNCHANGED markerCol
     /\ markerCol' # markerCol => last'.op \in {"noThanks", "newTable"}]_vars

\* C17 witness: a card has just been taken, and the player who took it is
\* still the active one.
C17_Witness ==
  /\ tableExists
  /\ revision = "part_000"
  /\ last = [op |-> "takeCard", err |-> ""]
  /\ getActivePlayer(World) # Null
  /\ Len(hands[getActivePlayer(World) + 1]) > 0

\* C18: a successful takeCard puts the revealed card, and nothing else, into
\* the hand of the active player, changes no other hand, adds all the tokens
\* of the pool to the active player and to nobody else, leaves no card
\* revealed and no token in the pool, and does not touch the deck.
C18_TakeEffect ==
  [][(TakeCard /\ last'.err = "")
       => LET p == getActivePlayer(World)
              pool == Num(getTokensInPool(World))
          IN /\ sortInt(CellValues(hands'[p + 1]))
                  = sortInt(Append(CellValues(hands[p + 1]), currentCard))
             /\ \A i \in 1..Len(hands) : i # p + 1 => hands'[i] = hands[i]
             /\ Len(hands') = Len(hands)
             /\ playerTokens' = [playerTokens EXCEPT ![p + 1] = @ + pool]
             /\ currentCard' = Null
             /\ PoolAfter = 0
             /\ deck' = deck]_vars

\* C18 witness: a card has just been taken together with a pool of tokens,
\* by a player who already held a card.
C18_Witness ==
  /\ tableExists
  /\ last = [op |-> "takeCard", err |-> ""]
  /\ currentCard = Null
  /\ \E i \in 1..Len(hands) :
       /\ Len(hands[i]) > 1
       /\ playerTokens[i] > tokensPerPlayer(DealtPlayers)

\* The tokens in the pool as the revision in use reads the box (a message
\* reads as null, which the handlers use as 0).
PoolOf(w) ==
  IF revision = "part_000" THEN Num(getCurrentTokensPart000(w))
  ELSE Num(getTokensInPool(w))

\* C19: a successful revealTopCard, of v1.0 or of part_000, takes exactly one
\* card out of the deck and makes it the revealed card, leaves the pool at 0,
\* and changes no hand, no player's tokens and not the active player.
C19_RevealEffect ==
  [][((RevealTopCard \/ RevealTopCardPart000) /\ last'.err = "")
       => /\ currentCard = Null
          /\ \E r \in 1..Len(deck) :
               /\ currentCard' = deck[r]
               /\ deck' = RemoveAt(deck, r)
          /\ PoolOf([World EXCEPT !.cell = tokensCell']) = 0
          /\ UNCHANGED <<hands, playerTokens, markerCol>>]_vars

\* C19 witness: with part_000 a card has just been revealed, not the first
\* of the game, and the box shows the turn message.
C19_Witness ==
  /\ tableExists
  /\ revision = "part_000"
  /\ last = [op |-> "revealTopCard", err |-> ""]
  /\ currentCard # Null
  /\ tokensCell.text = MSG_TURN
  /\ \E i \in 1..Len(hands) : Len(hands[i]) > 0

\* Cards in the deck of a new game.
DeckSize == Len(FullDeck) - SetupDraws

\* C20: on a table, with N the size of a new deck (24 for the real deck), at
\* most N reveals succeed, each revealed card is taken once before the next
\* reveal succeeds, and the game is over (deck empty, no card revealed)
\* exactly when N cards have been taken.
C20_GameLength ==
  tableExists =>
    /\ count.reveals = DeckSize - Len(deck)
    /\ count.reveals <= DeckSize
    /\ count.takes = SumSeq(HandSizes)
    /\ count.reveals = count.takes + (IF currentCard = Null THEN 0 ELSE 1)
    /\ (deck = <<>> /\ currentCard = Null) <=> count.takes = DeckSize

\* C20 witness: the game is over after N reveals and N takes, and a further
\* reveal has been refused.
C20_Witness ==
  /\ tableExists
  /\ count = [reveals |-> DeckSize, takes |-> DeckSize]
  /\ deck = <<>>
  /\ currentCard = Null
  /\ last = [op |-> "revealTopCard", err |-> "No more cards in the deck!"]

\* Cards of a sequence.
Cards(d) == {d[i] : i \in 1..Len(d)}

\* C21: in every revision of newDeck and for either value of REMOVE_TENS,
\* the deck newDeck returns has exactly the size of the card range minus the
\* cards removed at setup (33 - 9 = 24 in the code), its cards are all
\* distinct and all within MIN_CARD..MAX_CARD, whatever the random draws.
C21_NewDeck ==
  build.pc = "done" =>
    /\ Len(build.deck) = DeckRange - DeckRemoved
    /\ Cardinality(Cards(build.deck)) = Len(build.deck)
    /\ Cards(build.deck) \subseteq MIN_CARD..DeckMaxCard

\* C27: drawCard on a non-empty deck returns a card that was an element of
\* the deck, and a remaining deck that is the deck with exactly that one
\* element removed, in every revision and for every random index.
C27_DrawCard ==
  build.from # <<>> =>
    \E i \in 1..Len(build.from) :
      /\ build.card = build.from[i]
      /\ build.deck = RemoveAt(build.from, i)

\* s is strictly ascending.
Ascending(s) == \A i \in 1..(Len(s) - 1) : s[i] < s[i + 1]

\* C24: for any sequence of unique integers, in any order, the runs produced
\* by groupConsecutiveRuns, concatenated in the order produced, are exactly
\* the input sorted ascending: the same numbers, each once, in ascending
\* order.
C24_RunsRoundTrip ==
  grouped.pc = "done" =>
    LET flat == Flatten(grouped.out)
    IN /\ Len(flat) = Len(grouped.numbers)
       /\ Cards(flat) = Cards(grouped.numbers)
       /\ Ascending(flat)

\* An input of three numbers or more, not in ascending order, was grouped.
C24_Witness ==
  /\ grouped.pc = "done"
  /\ Len(grouped.numbers) >= 3
  /\ ~Ascending(grouped.numbers)
  /\ Len(grouped.out) >= 2

\* C28: every run produced by groupConsecutiveRuns is non-empty, the numbers
\* of a run are consecutive, the first number of every run after the first
\* is greater than the last number of the run before it plus one (the runs
\* are maximal), and the empty input produces no run.
C28_MaximalRuns ==
  grouped.pc = "done" =>
    LET out == grouped.out
    IN /\ \A k \in 1..Len(out) :
            /\ Len(out[k]) > 0
            /\ \A i \in 1..(Len(out[k]) - 1) : out[k][i + 1] = out[k][i] + 1
       /\ \A k \in 2..Len(out) : out[k][1] > out[k - 1][Len(out[k - 1])] + 1
       /\ (grouped.numbers = <<>> => out = <<>>)

\* An unordered input was grouped into a run of three and another run.
C28_Witness ==
  /\ grouped.pc = "done"
  /\ ~Ascending(grouped.numbers)
  /\ Len(grouped.out) >= 2
  /\ \E k \in 1..Len(grouped.out) : Len(grouped.out[k]) >= 3

RECURSIVE SumOver(_)
SumOver(S) ==
  IF S = {} THEN 0
  ELSE LET x == CHOOSE y \in S : TRUE IN x + SumOver(S \ {x})

\* The sum of the lowest card of every maximal run of consecutive cards.
RunMinimaSum(cards) == SumOver({c \in cards : c - 1 \notin cards})

\* C22: after the final-score reveal every player's score cell shows the sum
\* of the lowest card of each maximal run of consecutive cards in the
\* player's hand, minus the tokens the player holds.
C22_FinalScore ==
  last.op = "revealFinalScore" =>
    \A i \in 1..DealtPlayers :
      /\ i <= Len(scores)
      /\ ~scores[i].error
      /\ scores[i].n
           = RunMinimaSum(Cards(CellValues(hands[i]))) - playerTokens[i]

\* The place of a marker among the rank markers (the blank one is the fourth).
MarkerRank(m) ==
  CHOOSE k \in 1..Len(RANK_MARKERS) :
    /\ RANK_MARKERS[k] = m
    /\ \A j \in 1..(k - 1) : RANK_MARKERS[j] # m

\* C23: after the final-score reveal the rank markers follow the scores in
\* ascending order (a lower score has an earlier marker, the lowest score
\* the first), and players with equal scores have the same marker.
C23_Ranking ==
  (last.op = "revealFinalScore" /\ \A i \in 1..Len(scores) : ~scores[i].error)
    => \A i, j \in 1..Len(scores) :
         /\ scores[i].n < scores[j].n
              => \/ MarkerRank(markerCol[i]) < MarkerRank(markerCol[j])
                 \/ markerCol[i] = "" /\ markerCol[j] = ""
         /\ scores[i].n = scores[j].n => markerCol[i] = markerCol[j]
         /\ (\A k \in 1..Len(scores) : scores[i].n <= scores[k].n)
              => markerCol[i] = RANK_MARKERS[1]

\* C25: after a successful newGame or newTable, whatever the table held
\* before, the deck is a newly built deck, every hand is empty, no card is
\* revealed, the pool holds no token, every player holds the token count
\* dealt for the number of players, and one player is the active player.
C25_FreshState ==
  (last.op \in {"newGame", "newTable"} /\ last.err = "") =>
    LET n == Len(playerNames)
    IN /\ deck \in NewDecks
       /\ hands = [i \in 1..n |-> <<>>]
       /\ currentCard = Null
       /\ PoolOf(World) = 0
       /\ playerTokens = [i \in 1..n |-> TokensByRule(n)]
       /\ getActivePlayer(World) \in 0..(n - 1)

\* C29: while a game is live (a table exists and a card is in the deck or
\* revealed), every player has a stored token count, and it is a
\* non-negative integer: not negative, not null, not NaN, not undefined.
C29_NonNegativeTokens ==
  (tableExists /\ (deck # <<>> \/ currentCard # Null)) =>
    \A i \in 1..Len(playerNames) :
      /\ i <= Len(playerTokens)
      /\ playerTokens[i] \in Nat

\* Every invocation has left: by a return, by a throw, or by a waitLock that
\* gave up.
AllLeft == \A i \in Procs : inv[i].pc \in {"busy", "threw", "done"}

\* C30: once every new-table attempt has ended, by success, by a throw in
\* the guarded body or by a lock that was not obtained within the period,
\* no temporary sheet "Creating new table..." is left (so that a later New
\* Table can insert its own), and the Table sheet is still there.
C30_NoLeftover == AllLeft => (newSheet = 0 /\ tableExists)

\* The state of section "Turn/Game State Machine" a table is in, read from
\* what is persisted: no table yet; final score rendered; a card revealed;
\* cards left to reveal; nothing left to reveal.
Phase ==
  IF ~tableExists THEN "Setup"
  ELSE IF scores # <<>> THEN "ScoresRevealed"
  ELSE IF currentCard # Null THEN "CardRevealed"
  ELSE IF deck # <<>> THEN "AwaitingReveal"
  ELSE "GameOver"

\* The moves between two different states that the state machine allows.
PhaseSteps ==
  { <<"Setup", "AwaitingReveal">>,
    <<"AwaitingReveal", "CardRevealed">>,
    <<"CardRevealed", "AwaitingReveal">>,
    <<"CardRevealed", "GameOver">>,
    <<"GameOver", "ScoresRevealed">> }

\* A script is available to the players when a hotspot image runs it.
Available(h, script) == \E l \in Locations : h[l] = script

\* A step in which New Table replaces the table by a new one.
TableCreated == last'.op = "newTable" /\ last'.err = ""

\* C26: until a new table is created, the state of a table changes only
\* along Setup -> AwaitingReveal -> CardRevealed -> (AwaitingReveal or
\* CardRevealed)* -> GameOver -> ScoresRevealed; the final-score script is
\* assigned to a hotspot only by the take that leaves the deck empty and no
\* card revealed, and is assigned only in GameOver; once the scores are
\* revealed no hotspot runs any script and no reveal, take or decline
\* changes anything.
C26_PhaseOrder ==
  [][ \/ TableCreated
      \/ /\ Phase' # Phase => <<Phase, Phase'>> \in PhaseSteps
         /\ (Available(hotspots', "revealFinalScore")
               /\ ~Available(hotspots, "revealFinalScore")) =>
              /\ last'.op = "takeCard"
              /\ Phase = "CardRevealed"
              /\ Phase' = "GameOver"
         /\ Available(hotspots', "revealFinalScore") => Phase' = "GameOver"
         /\ Phase' = "ScoresRevealed" =>
              \A l \in Locations : hotspots'[l] = ""
         /\ Phase = "ScoresRevealed" => UNCHANGED gameVars ]_vars

\* What a refusal for want of cards says, in the revisions of revealTopCard.
DeckEmptyErrors == {"No more cards in the deck!", "Deck is empty!"}

\* C31: revealTopCard with no card revealed and no card in the deck (none
\* stored, or the stored deck cleared after the last draw) is refused with
\* the deck-empty message and changes nothing, in every revision.
C31_EmptyDeckRejected ==
  [][(last'.op = "revealTopCard" /\ deck = <<>> /\ currentCard = Null)
       => (last'.err \in DeckEmptyErrors /\ UNCHANGED gameVars)]_vars

\* C32: on a table, the pool reads as no tokens whenever no card is
\* revealed, and right after a successful reveal, which is the pool the
\* first noThanks on that card reads; also after the take of a card that
\* carried no tokens, where nothing is transferred.
C32_NoStalePool ==
  tableExists =>
    /\ currentCard = Null => PoolOf(World) = 0
    /\ last = [op |-> "revealTopCard", err |-> ""] => PoolOf(World) = 0

\* C32 witness: a card has been taken with no token on it (every player
\* still holds the tokens dealt), and the next card has been revealed.
C32_Witness ==
  /\ tableExists
  /\ last = [op |-> "revealTopCard", err |-> ""]
  /\ \E i \in 1..Len(hands) : Len(hands[i]) > 0
  /\ \A i \in 1..Len(playerTokens) :
       playerTokens[i] = TokensByRule(Len(playerNames))
  /\ PoolOf(World) = 0

\* The game on the table is over: no card in the deck and none revealed.
GameIsOver == deck = <<>> /\ currentCard = Null

\* C33: on a table whose game is not over some action succeeds: with no
\* card revealed the deck has cards and revealTopCard succeeds; with a card
\* revealed takeCard succeeds, whatever tokens the players hold.
C33_NoDeadEnd ==
  (tableExists /\ ~GameIsOver) =>
    IF currentCard = Null
    THEN /\ deck # <<>>
         /\ \A r \in DrawIndexes(deck) : revealTopCardImpl(World, r).err = ""
    ELSE \A r \in DrawIndexes(deck) : takeCard(World, r).err = ""

\* C33 witness: a card is revealed and no player holds a token, so that
\* noThanks is refused and takeCard is the only way on.
C33_Witness ==
  /\ tableExists
  /\ currentCard # Null
  /\ \A i \in 1..Len(playerTokens) : playerTokens[i] = 0
  /\ noThanks(World).err # ""
  /\ takeCard(World, 1).err = ""

\* Tokens dealt at the start of the game on the table.
TokensDealt == DealtPlayers * tokensPerPlayer(DealtPlayers)

\* A reveal, take or decline that ends without an error.
GoodMove ==
  /\ tableExists
  /\ last'.op \in {"revealTopCard", "takeCard", "noThanks"}
  /\ last'.err = ""

\* C34: no play goes on for ever: in every behaviour the reveals, takes
\* and declines that succeed come to an end (refused ones may go on), so
\* players who keep moving reach the end of the game.  Meanwhile the
\* declines on the revealed card, which are the tokens lying in the pool,
\* never exceed the tokens dealt.
C34_GameEnds ==
  /\ [](tableExists => Num(getTokensInPool(World)) <= TokensDealt)
  /\ <>[][~GoodMove]_vars

\* C34 witness: the game is over after a card was declined by every player
\* in turn until nobody could decline any more.
C34_Witness ==
  /\ tableExists
  /\ GameIsOver
  /\ \E i \in 1..Len(playerTokens) : playerTokens[i] = TokensDealt

\* The scripts the three hotspot images run.
Bound(deckScript, cardScript, tokensScript) ==
  hotspots = [l \in Locations |->
                CASE l = "DECK" -> deckScript
                  [] l = "CARD" -> cardScript
                  [] l = "TOKENS" -> tokensScript]

\* C35: on a table, after an action that ended without an error, the
\* scripts of the hotspots are those of the state of the game: DECK runs
\* revealTopCard exactly when no card is revealed and the deck has cards;
\* CARD runs takeCard and TOKENS runs noThanks exactly when a card is
\* revealed; at the end of the game TOKENS runs the final-score script and
\* nothing else is bound; once the final score is shown nothing is bound.
C35_ClickTargets ==
  (tableExists /\ last.err = "") =>
    /\ hotspots["DECK"] = "revealTopCard"
         <=> (currentCard = Null /\ deck # <<>>)
    /\ hotspots["CARD"] = "takeCard" <=> currentCard # Null
    /\ hotspots["TOKENS"] = "noThanks" <=> currentCard # Null
    /\ (GameIsOver /\ scores = <<>>) => Bound("", "", "revealFinalScore")
    /\ scores # <<>> => Bound("", "", "")

\* The invocation i is the only one past the lock test of singleEntry and
\* the lock value it stored is still there.
HoldsLock(i) ==
  /\ mech = "metadata"
  /\ inv[i].pc \in BodyPcs \cup {"fin"}
  /\ lockMeta.val > EmptyValue
  /\ \A j \in Procs \ {i} : inv[j].pc \notin BodyPcs \cup {"fin", "set"}

\* C36: the lock held by an invocation still in progress is removed only by
\* the step with which that invocation itself leaves singleEntry.
C36_OwnerClearsLock ==
  [][\A i \in Procs :
       (HoldsLock(i) /\ lockMeta'.val = NoMeta)
         => inv'[i].pc \in {"done", "threw"}]_vars

\* C37: the count that wraps the turn order, the number of non-blank name
\* cells, is the number of players the table was created with and dealt
\* tokens to.
C37_ConsistentPlayerCount ==
  (tableExists /\ revision = "part_000") =>
    /\ getPlayerCount(World) = Len(playerNames)
    /\ getPlayerCount(World) = DealtPlayers

\* The state a handler of the auto-revealing build leaves with a card
\* revealed: the pool at 0, CARD and TOKENS clickable, DECK not.
AutoRevealed ==
  /\ currentCard # Null
  /\ Num(getTokensInPool(World)) = 0
  /\ hotspots = [l \in Locations |->
                   CASE l = "DECK" -> ""
                     [] l = "CARD" -> "takeCard"
                     [] l = "TOKENS" -> "noThanks"]

\* C38: with AUTO_REVEAL_NEXT_CARD on, takeCard on a revealed card succeeds;
\* when the deck has cards it ends with one of them revealed and removed from
\* the deck, the pool at 0 and the same active player; when the deck is
\* empty it ends in game over.  A successful new table ends with a card
\* revealed too.  Tokens and cards are conserved throughout.
C38_AutoReveal ==
  [][AUTO_REVEAL_NEXT_CARD =>
       /\ (last'.op = "takeCard" /\ currentCard # Null) =>
            /\ last'.err = ""
            /\ getActivePlayer(World)' = getActivePlayer(World)
            /\ IF deck # <<>>
               THEN /\ AutoRevealed'
                    /\ \E r \in 1..Len(deck) :
                         /\ currentCard' = deck[r]
                         /\ deck' = RemoveAt(deck, r)
               ELSE /\ GameIsOver'
                    /\ Bound("", "", "revealFinalScore")'
       /\ (last'.op = "newTable" /\ last'.err = "") =>
            /\ AutoRevealed'
            /\ getActivePlayer(World)' # Null
            /\ Len(deck') + 1 + SETUP_CARDS_REMOVED = MAX_CARD - MIN_CARD + 1
       /\ C1_TokenConservation'
       /\ C2_CardCount'
       /\ C3_CardUniqueness']_vars

\* C38 witness: a take has just revealed the next card by itself.
C38_Witness ==
  /\ AUTO_REVEAL_NEXT_CARD
  /\ last = [op |-> "takeCard", err |-> ""]
  /\ AutoRevealed
  /\ \E i \in 1..Len(hands) : Len(hands[i]) > 0
  /\ \E i \in 1..Len(playerTokens) :
       playerTokens[i] > tokensPerPlayer(DealtPlayers)

\* How often the name occurs in the array.
Occurrences(array, name) ==
  Cardinality({i \in 1..Len(array) : array[i] = name})

\* C39: what shuffle returns has the length of its input and holds every
\* name as often as the input does, whatever the random draws were.
C39_ShufflePermutes ==
  last.op = "shuffle" =>
    /\ Len(playerNames) = Len(startWorld.names)
    /\ \A name \in ShuffleNames :
         Occurrences(playerNames, name) = Occurrences(startWorld.names, name)

\* C39 witness: three different players and a fourth sharing a name come
\* back in another order.
C39_Witness ==
  /\ last.op = "shuffle"
  /\ Len(startWorld.names) = MaxShuffle
  /\ \A name \in ShuffleNames : Occurrences(startWorld.names, name) > 0
  /\ playerNames # startWorld.names
  /\ playerNames[1] = startWorld.names[Len(startWorld.names)]

====
